---------------------------- MODULE Spec2Model ----------------------------
(***************************************************************************)
(* A model of the go-github client binding: the per-resource wrappers     *)
(* (build one request, dispatch it through client.Do, hand the result     *)
(* back), the request/response pipeline behind client.Do together with    *)
(* the rate-limit tracker, and the JSON decoders of the polymorphic       *)
(* body types.                                                             *)
(***************************************************************************)
EXTENDS Integers, Sequences, FiniteSets, TLC

(***************************************************************************)
(* Bounds of the model.                                                    *)
(***************************************************************************)
\* number of concurrent callers (goroutines) sharing one Client
NumCallers == 2
\* total number of wrapper calls made in one behaviour
MaxCalls == 3
\* total number of direct client.Do calls made in one behaviour
MaxDoCalls == 2
\* number of options handed to one NewMockHttpClient call
MaxOptions == 3

Procs == 1..NumCallers

(***************************************************************************)
(* Values.                                                                 *)
(***************************************************************************)
\* Go's nil, for a pointer, a slice, an error or a *Response
Nil == "nil"
\* the place of a result a wrapper's signature does not have
NoSlot == "none"

\* what a decode target can hold: nil (a nil pointer or slice), zero (allocated,
\* never written), decoded (filled from a body), partial (a decode that failed
\* midway)
TargetValues == {Nil, "zero", "decoded", "partial"}

\* the user-supplied path segment of a call: "e" is a plain name, "%" and "\n"
\* are the segments the tests use to make URL parsing fail
Segments == {"e", "%", "\n"}

Categories == {"core", "search"}

\* the ways one transport exchange can end
Exchanges == {"transport_fail", "ok_json", "ok_empty", "ok_malformed", "api_error"}

\* no response: the transport never produced one
NoResp == [id |-> 0, cat |-> "core", kind |-> "none"]

\* the empty rate-limit record of a category never observed
NoRecord == [limit |-> 0, remaining |-> 0, reset |-> 0]

VARIABLES
    pc,        \* pc[p]: where caller p stands in its current wrapper call
    call,      \* call[p]: the wrapper caller p is in and its path segment
    reqs,      \* reqs[p]: requests built by the current wrapper call
    doCalls,   \* doCalls[p]: dispatches through client.Do by the current call
    target,    \* target[p]: the decode target of the current call
    resp,      \* resp[p]: the response the transport produced for the call
    doOut,     \* doOut[p]: what client.Do returned: [resp, err]
    ret,       \* ret[p]: what the wrapper returned: [val, resp, err]
    log,       \* log[p]: the events of the current Do call, in order
    rate,      \* rate[c]: the tracker's record of category c
    observed,  \* the responses the tracker has observed so far
    snap,      \* snap[p]: the last record caller p read with Snapshot
    nextId,    \* the number of responses the server has produced
    ncalls,    \* the number of wrapper calls started
    rsr,       \* a RulesetRule receiver, reused across UnmarshalJSON calls
    ruleIn,    \* the JSON document of the last RulesetRule.UnmarshalJSON call
    ruleErr,   \* what that call returned
    cp,        \* a CopilotSeatDetails receiver, reused across UnmarshalJSON calls
    seatIn,    \* the JSON document of the last CopilotSeatDetails.UnmarshalJSON call
    seatOut,   \* how that call ended: nil, an error, or a panic
    ev,        \* an Event received from the API
    payloadOut, \* how the last Payload call on ev ended, and what it returned
    codecPc,   \* position of the encode/decode round trip: idle, encoded, decoded
    codecIn,   \* the body value handed to json.Marshal, with its type
    wire,      \* the JSON object json.Marshal produced
    codecOut, \* the fresh value json.Unmarshal filled from wire
    stIn, \* the wrapper called last on a status-driven endpoint, with the exchange it met
    stRet, \* what that call returned
    reqIn, \* the wrapper that built a request last, with its arguments
    req, \* the request that wrapper handed to client.Do
    linkIn, \* the Link header of the response handed to ExtractCursors last
    cursors, \* the cursor set ExtractCursors derived from it
    tripPc, \* position of the rule round trip: idle, built, marshalled, unmarshalled
    built, \* the RulesetRule a New*Rule constructor returned
    ruleWire, \* the JSON json.Marshal produced for built
    rebuilt, \* the receiver UnmarshalJSON filled from ruleWire, and its error
    RequestMocks, \* MockRoundTripper.RequestMocks: the queue of bodies of each RequestMatch
    registered, \* the bodies the options registered for each RequestMatch, in order
    served, \* the bodies RoundTrip returned from each RequestMatch's queue, in order
    lastTrip, \* the last RoundTrip of a single caller: request, mocks before it, outcome
    trips, \* trips[p]: where goroutine p stands in its RoundTrip call, and what it holds
    fatal \* the runtime has stopped the program on concurrent map access

pipeVars == <<pc, call, reqs, doCalls, target, resp, doOut, ret, log, rate,
              observed, snap, nextId, ncalls>>

ruleVars == <<rsr, ruleIn, ruleErr>>

seatVars == <<cp, seatIn, seatOut>>

eventVars == <<ev, payloadOut>>

codecVars == <<codecPc, codecIn, wire, codecOut>>

statusVars == <<stIn, stRet>>

reqVars == <<reqIn, req>>

linkVars == <<linkIn, cursors>>

tripVars == <<tripPc, built, ruleWire, rebuilt>>

mockVars == <<RequestMocks, registered, served, lastTrip, trips, fatal>>

vars == <<pipeVars, ruleVars, seatVars, eventVars, codecVars, statusVars, reqVars, linkVars, tripVars, mockVars>>

(***************************************************************************)
(* The request builder, as the wrappers use it.                           *)
(***************************************************************************)
\* url.Parse rejects a path holding an invalid escape ("%") or a control
\* character ("\n")
URLParses(seg) == seg \notin {"%", "\n"}

\* addOptions(s, opts): parses s before it adds the query
addOptions(seg) == IF URLParses(seg) THEN Nil ELSE "InvalidPathError"

\* client.NewRequest(verb, path, body): resolves path against the base URL
NewRequest(seg) == IF URLParses(seg) THEN Nil ELSE "InvalidPathError"

(***************************************************************************)
(* The wrappers.  Each is its code after the request was built or failed  *)
(* to build: buildErr is the error of addOptions / NewRequest (Nil when   *)
(* the request was built), t the decode target after client.Do and d what *)
(* client.Do returned.                                                     *)
(***************************************************************************)
Ret3(v, r, e) == [sig |-> "val_resp_err", val |-> v, resp |-> r, err |-> e]
Ret2(v, e) == [sig |-> "val_err", val |-> v, resp |-> NoResp, err |-> e]
RetResp(r, e) == [sig |-> "resp_err", val |-> NoSlot, resp |-> r, err |-> e]

\* the shape of the newer wrappers: nil, nil, err / nil, resp, err / v, resp, nil
Guarded3(buildErr, t, d) ==
    IF buildErr # Nil THEN Ret3(Nil, NoResp, buildErr)
    ELSE IF d.err # Nil THEN Ret3(Nil, d.resp, d.err)
    ELSE Ret3(t, d.resp, Nil)

GetCopilotBilling(buildErr, t, d) == Guarded3(buildErr, t, d)

ListCopilotSeats(buildErr, t, d) == Guarded3(buildErr, t, d)

listVariables(buildErr, t, d) == Guarded3(buildErr, t, d)

ListBlockedUsers(buildErr, t, d) == Guarded3(buildErr, t, d)

\* resp, err := s.client.Do(req, events); return *events, resp, err
ListPublicEvents(buildErr, t, d) ==
    IF buildErr # Nil THEN Ret3(Nil, NoResp, buildErr)
    ELSE Ret3(t, d.resp, d.err)

\* _, err = s.client.Do(req, repos); return *repos, err
RepositoriesList(buildErr, t, d) ==
    IF buildErr # Nil THEN Ret2(Nil, buildErr)
    ELSE Ret2(t, d.err)

\* r := new(Repository); _, err = s.client.Do(req, r); return r, err
RepositoriesCreate(buildErr, t, d) ==
    IF buildErr # Nil THEN Ret2(Nil, buildErr)
    ELSE Ret2(t, d.err)

\* RepositoriesGet with the target handed back whatever failed
RepositoriesGetUnguarded(buildErr, t, d) ==
    Ret2(t, IF buildErr # Nil THEN buildErr ELSE d.err)

RepositoriesGet(buildErr, t, d) ==
    IF buildErr # Nil THEN Ret2(Nil, buildErr)
    ELSE Ret2(t, d.err)

\* SearchService.search returns only err; Users turns it into (result, err)
SearchUsers(buildErr, t, d) ==
    LET err == IF buildErr # Nil THEN buildErr ELSE d.err
    IN  IF err # Nil THEN Ret2(Nil, err) ELSE Ret2(t, Nil)

SetEnabledOrgsInEnterprise(buildErr, t, d) ==
    IF buildErr # Nil THEN RetResp(NoResp, buildErr)
    ELSE IF d.err # Nil THEN RetResp(d.resp, d.err)
    ELSE RetResp(d.resp, Nil)

Wrappers == {"GetCopilotBilling", "ListCopilotSeats", "listVariables",
             "ListBlockedUsers", "ListPublicEvents", "RepositoriesList",
             "RepositoriesCreate", "RepositoriesGet", "SearchUsers",
             "SetEnabledOrgsInEnterprise"}

WrapperReturn(w, buildErr, t, d) ==
    CASE w = "GetCopilotBilling" -> GetCopilotBilling(buildErr, t, d)
      [] w = "ListCopilotSeats" -> ListCopilotSeats(buildErr, t, d)
      [] w = "listVariables" -> listVariables(buildErr, t, d)
      [] w = "ListBlockedUsers" -> ListBlockedUsers(buildErr, t, d)
      [] w = "ListPublicEvents" -> ListPublicEvents(buildErr, t, d)
      [] w = "RepositoriesList" -> RepositoriesList(buildErr, t, d)
      [] w = "RepositoriesCreate" -> RepositoriesCreate(buildErr, t, d)
      [] w = "RepositoriesGet" -> RepositoriesGet(buildErr, t, d)
      [] w = "SearchUsers" -> SearchUsers(buildErr, t, d)
      [] w = "SetEnabledOrgsInEnterprise" -> SetEnabledOrgsInEnterprise(buildErr, t, d)

\* the wrappers that pass their options through addOptions before NewRequest
UsesAddOptions(w) == w \in {"listVariables", "ListBlockedUsers"}

\* the wrappers whose path holds a caller-supplied segment; the others build a
\* fixed path (the query of search is escaped by url.Values.Encode)
PathFromCaller(w) == w \notin {"ListBlockedUsers", "ListPublicEvents", "SearchUsers"}

\* the decode target a wrapper hands to client.Do: var v *T and var v []T are
\* nil, new(T) and &T{} are allocated, *new([]T) is a nil slice
TargetInit(w) ==
    CASE w \in {"GetCopilotBilling", "ListCopilotSeats", "ListBlockedUsers",
                "ListPublicEvents", "RepositoriesList"} -> Nil
      [] w \in {"listVariables", "RepositoriesCreate", "RepositoriesGet",
                "SearchUsers"} -> "zero"
      [] w = "SetEnabledOrgsInEnterprise" -> NoSlot

\* the rate-limit category of a wrapper's endpoint
CategoryOf(w) == IF w = "SearchUsers" THEN "search" ELSE "core"

\* the error of building the request of wrapper w for path segment seg
BuildError(w, seg) ==
    IF UsesAddOptions(w) /\ addOptions(seg) # Nil THEN addOptions(seg)
    ELSE NewRequest(seg)

(***************************************************************************)
(* client.Do and the rate-limit tracker.                                   *)
(***************************************************************************)
\* the call of a caller that is in no call
NoCall == [w |-> "none", seg |-> "e", cat |-> "core"]

\* what client.Do has returned before it was called
NoDo == [resp |-> NoResp, err |-> Nil]

\* what a wrapper has returned before it returned
NoRet == [sig |-> "none", val |-> NoSlot, resp |-> NoResp, err |-> Nil]

\* the limit / remaining / reset headers of the response with stamp r.id: every
\* response carries its own values, with limit >= remaining
RateHeaders(r) == [limit |-> 2 * r.id, remaining |-> r.id, reset |-> 3 * r.id]

\* Observe writing limit and remaining and leaving the reset of the old record
ObserveTorn(rt, r) ==
    [rt EXCEPT ![r.cat] = [limit |-> RateHeaders(r).limit,
                           remaining |-> RateHeaders(r).remaining,
                           reset |-> rt[r.cat].reset]]

\* Observe(headers): the record of the response's category is replaced whole
Observe(rt, r) == [rt EXCEPT ![r.cat] = RateHeaders(r)]

\* Do observing the headers of successful responses only
AfterReceiptOnSuccess(r) == IF r.kind = "api_error" THEN "classify" ELSE "observe"

\* the step of Do that follows the receipt of response r
AfterReceipt(r) == "observe"

\* the classification of a received response: the error Do returns for it
Classify(r) ==
    CASE r.kind \in {"ok_json", "ok_empty"} -> Nil
      [] r.kind = "ok_malformed" -> "DecodeError"
      [] r.kind = "api_error" -> "APIError"

\* the decode target after Do handled response r: decoded from a well-formed
\* body, untouched by an empty body and by an error response, untouched or
\* written in part by a body that fails to decode
Decode(t, r) ==
    CASE t = NoSlot -> {t}
      [] r.kind = "ok_json" -> {"decoded"}
      [] r.kind = "ok_malformed" -> {t, "partial"}
      [] OTHER -> {t}

\* a wrapper that dispatches its request again when client.Do failed
AfterDoRetry(d) == IF d.err # Nil THEN "do" ELSE "done"

\* where a wrapper goes when client.Do has returned d: every wrapper returns,
\* whatever the error
AfterDo(d) == "done"

(***************************************************************************)
(* The steps of one wrapper call by caller p.                              *)
(***************************************************************************)
\* the locals of a caller that is in no call
Idle(p) ==
    /\ pc' = [pc EXCEPT ![p] = "idle"]
    /\ call' = [call EXCEPT ![p] = NoCall]
    /\ reqs' = [reqs EXCEPT ![p] = 0]
    /\ doCalls' = [doCalls EXCEPT ![p] = 0]
    /\ target' = [target EXCEPT ![p] = Nil]
    /\ resp' = [resp EXCEPT ![p] = NoResp]
    /\ doOut' = [doOut EXCEPT ![p] = NoDo]
    /\ ret' = [ret EXCEPT ![p] = NoRet]
    /\ log' = [log EXCEPT ![p] = <<>>]

\* the caller enters wrapper w with path segment seg; wrapper calls are taken
\* one at a time: a wrapper shares nothing with another call but the tracker
\* behind client.Do
Call(p, w, seg) ==
    /\ \A q \in Procs : pc[q] = "idle"
    /\ ncalls < MaxCalls
    /\ ncalls' = ncalls + 1
    /\ call' = [call EXCEPT ![p] = [w |-> w, seg |-> seg, cat |-> CategoryOf(w)]]
    /\ pc' = [pc EXCEPT ![p] = "build"]
    /\ target' = [target EXCEPT ![p] = TargetInit(w)]
    /\ UNCHANGED <<reqs, doCalls, resp, doOut, ret, log, rate, observed, snap,
                   nextId>>

\* addOptions and NewRequest: on an error the wrapper returns at once
Build(p) ==
    /\ pc[p] = "build"
    /\ LET e == BuildError(call[p].w, call[p].seg)
       IN  IF e # Nil
           THEN /\ ret' = [ret EXCEPT ![p] = WrapperReturn(call[p].w, e, target[p], NoDo)]
                /\ pc' = [pc EXCEPT ![p] = "done"]
                /\ reqs' = reqs
           ELSE /\ reqs' = [reqs EXCEPT ![p] = @ + 1]
                /\ pc' = [pc EXCEPT ![p] = "do"]
                /\ ret' = ret
    /\ UNCHANGED <<call, doCalls, target, resp, doOut, log, rate, observed,
                   snap, nextId, ncalls>>

\* the wrapper's code after client.Do
Return(p) ==
    /\ pc[p] = "afterdo"
    /\ call[p].w \in Wrappers
    /\ pc' = [pc EXCEPT ![p] = AfterDo(doOut[p])]
    /\ ret' = [ret EXCEPT ![p] =
                 IF AfterDo(doOut[p]) = "done"
                 THEN WrapperReturn(call[p].w, Nil, target[p], doOut[p])
                 ELSE @]
    /\ UNCHANGED <<call, reqs, doCalls, target, resp, doOut, log, rate, observed,
                   snap, nextId, ncalls>>

\* the caller takes the wrapper's results
Finish(p) ==
    /\ pc[p] = "done"
    /\ Idle(p)
    /\ UNCHANGED <<rate, observed, snap, nextId, ncalls>>

(***************************************************************************)
(* The steps of client.Do.                                                 *)
(***************************************************************************)
\* Snapshot(category): before it calls client.Do, a caller reads the latest
\* record of the category of its request
Snapshot(p, c) ==
    /\ pc[p] = "idle"
    /\ ncalls < MaxDoCalls
    /\ ncalls' = ncalls + 1
    /\ snap' = [snap EXCEPT ![p] = rate[c]]
    /\ call' = [call EXCEPT ![p] = [w |-> "Do", seg |-> "e", cat |-> c]]
    /\ pc' = [pc EXCEPT ![p] = "ready"]
    /\ UNCHANGED <<reqs, doCalls, target, resp, doOut, ret, log, rate, observed,
                   nextId>>

\* the caller hands client.Do its request and a decode target
DoCall(p) ==
    /\ pc[p] = "ready"
    /\ reqs' = [reqs EXCEPT ![p] = 1]
    /\ target' = [target EXCEPT ![p] = "zero"]
    /\ pc' = [pc EXCEPT ![p] = "do"]
    /\ UNCHANGED <<call, doCalls, resp, doOut, ret, log, rate, observed, snap,
                   nextId, ncalls>>

\* client.Do sends the request: the transport fails, or a response arrives
DoSend(p, x) ==
    /\ pc[p] = "do"
    /\ doCalls' = [doCalls EXCEPT ![p] = @ + 1]
    /\ log' = [log EXCEPT ![p] = <<"send">>]
    /\ IF x = "transport_fail"
       THEN /\ pc' = [pc EXCEPT ![p] = "doreturn"]
            /\ doOut' = [doOut EXCEPT ![p] = [resp |-> NoResp, err |-> "TransportError"]]
            /\ UNCHANGED <<resp, nextId>>
       ELSE LET r == [id |-> nextId + 1, cat |-> call[p].cat, kind |-> x]
            IN  /\ nextId' = nextId + 1
                /\ resp' = [resp EXCEPT ![p] = r]
                /\ pc' = [pc EXCEPT ![p] = AfterReceipt(r)]
                /\ doOut' = doOut
    /\ UNCHANGED <<call, reqs, target, ret, rate, observed, snap, ncalls>>

\* the tracker observes the headers of the response
DoObserve(p) ==
    /\ pc[p] = "observe"
    /\ rate' = Observe(rate, resp[p])
    /\ observed' = observed \cup {[id |-> resp[p].id, cat |-> resp[p].cat]}
    /\ log' = [log EXCEPT ![p] = Append(@, "observe")]
    /\ pc' = [pc EXCEPT ![p] = "classify"]
    /\ UNCHANGED <<call, reqs, doCalls, target, resp, doOut, ret, snap, nextId,
                   ncalls>>

\* the response is classified and its body decoded into the target
DoClassify(p) ==
    /\ pc[p] = "classify"
    /\ \E t \in Decode(target[p], resp[p]) : target' = [target EXCEPT ![p] = t]
    /\ doOut' = [doOut EXCEPT ![p] = [resp |-> resp[p], err |-> Classify(resp[p])]]
    /\ log' = [log EXCEPT ![p] = Append(@, "classify")]
    /\ pc' = [pc EXCEPT ![p] = "doreturn"]
    /\ UNCHANGED <<call, reqs, doCalls, resp, ret, rate, observed, snap, nextId,
                   ncalls>>

\* client.Do returns to its caller
DoReturn(p) ==
    /\ pc[p] = "doreturn"
    /\ log' = [log EXCEPT ![p] = Append(@, "return")]
    /\ pc' = [pc EXCEPT ![p] = "afterdo"]
    /\ UNCHANGED <<call, reqs, doCalls, target, resp, doOut, ret, rate, observed,
                   snap, nextId, ncalls>>

\* a direct caller of client.Do takes its results
DoDone(p) ==
    /\ pc[p] = "afterdo"
    /\ call[p].w = "Do"
    /\ Idle(p)
    /\ snap' = [snap EXCEPT ![p] = NoRecord]
    /\ UNCHANGED <<rate, observed, nextId, ncalls>>

PipeInit ==
    /\ pc = [p \in Procs |-> "idle"]
    /\ call = [p \in Procs |-> NoCall]
    /\ reqs = [p \in Procs |-> 0]
    /\ doCalls = [p \in Procs |-> 0]
    /\ target = [p \in Procs |-> Nil]
    /\ resp = [p \in Procs |-> NoResp]
    /\ doOut = [p \in Procs |-> NoDo]
    /\ ret = [p \in Procs |-> NoRet]
    /\ log = [p \in Procs |-> <<>>]
    /\ rate = [c \in Categories |-> NoRecord]
    /\ observed = {}
    /\ snap = [p \in Procs |-> NoRecord]
    /\ nextId = 0
    /\ ncalls = 0

(***************************************************************************)
(* RulesetRule and its UnmarshalJSON.                                      *)
(***************************************************************************)
\* the rule types whose case sets Parameters to nil
ParameterlessTypes ==
    {"creation", "deletion", "required_linear_history", "required_signatures",
     "non_fast_forward"}

PatternTypes ==
    {"commit_message_pattern", "commit_author_email_pattern",
     "committer_email_pattern", "branch_name_pattern", "tag_name_pattern"}

\* the rule types of the switch that decode a second time
ParameterTypes ==
    {"update", "required_deployments", "pull_request", "required_status_checks"}
    \cup PatternTypes

KnownRuleTypes == ParameterlessTypes \cup ParameterTypes

\* a nil Parameters interface
NilParams == [ptr |-> Nil, val |-> "none"]

\* the struct the second pass of the case of rule type t decodes into
ParametersStruct(t) ==
    CASE t = "update" -> "UpdateAllowsFetchAndMergeRuleParameters"
      [] t = "required_deployments" -> "RequiredDeploymentEnvironmentsRuleParameters"
      [] t \in PatternTypes -> "RulePatternParameters"
      [] t = "pull_request" -> "PullRequestRuleParameters"
      [] t = "required_status_checks" -> "RequiredStatusChecksRuleParameters"

\* a JSON document handed to UnmarshalJSON: wf says whether it is a well-formed
\* object; type is its "type" member (a string, "<absent>" or "<number>", a
\* member that is no string); params is the form of its "parameters" member:
\* absent, null, an object that fits the parameter struct, an object with a
\* member of the wrong JSON type (mismatch), or no object at all (scalar)
RuleTypeMembers == KnownRuleTypes \cup {"", "merge_queue", "<absent>", "<number>"}

RuleParamForms == {"absent", "null", "object", "mismatch", "scalar"}

RuleDocs == [wf : BOOLEAN, type : RuleTypeMembers, params : RuleParamForms]

NoRuleDoc == [wf |-> FALSE, type |-> "<absent>", params |-> "absent"]

\* json.Unmarshal(data, &rulesetRule) with rulesetRule.Parameters a nil
\* interface: Type takes the "type" string and Parameters whatever JSON value
\* is there; a "type" that is no string is an UnmarshalTypeError
FirstPass(doc) ==
    IF ~doc.wf THEN [err |-> "SyntaxError", Type |-> "", Parameters |-> NilParams]
    ELSE IF doc.type = "<number>"
    THEN [err |-> "UnmarshalTypeError", Type |-> "", Parameters |-> NilParams]
    ELSE [err |-> Nil,
          Type |-> IF doc.type = "<absent>" THEN "" ELSE doc.type,
          Parameters |->
              CASE doc.params \in {"absent", "null"} -> NilParams
                [] doc.params \in {"object", "mismatch"} ->
                     [ptr |-> "map[string]interface{}", val |-> "filled"]
                [] doc.params = "scalar" -> [ptr |-> "string", val |-> "filled"]]

\* json.Unmarshal(data, &rulesetRule) with rulesetRule.Parameters = &T{}: an
\* absent member leaves the empty T, null sets the interface to nil, an object
\* is decoded into the T, anything else is an UnmarshalTypeError
SecondPass(T, doc) ==
    CASE doc.params = "absent" -> [err |-> Nil, Parameters |-> [ptr |-> T, val |-> "zero"]]
      [] doc.params = "null" -> [err |-> Nil, Parameters |-> NilParams]
      [] doc.params = "object" -> [err |-> Nil, Parameters |-> [ptr |-> T, val |-> "filled"]]
      [] OTHER -> [err |-> "UnmarshalTypeError", Parameters |-> [ptr |-> T, val |-> "zero"]]

\* a parameterless case that keeps what the first pass decoded
ParameterlessCaseKeeps(first) == first.Parameters

\* the case of a parameterless rule type: rsr.Parameters = nil
ParameterlessCase(first) == NilParams

\* a default case that leaves the Type assigned before the switch
DefaultCaseKeepsType(first) == [Type |-> first.Type, Parameters |-> NilParams]

\* the default case: rsr.Type = "", rsr.Parameters = nil
DefaultCase(first) == [Type |-> "", Parameters |-> NilParams]

\* (rsr *RulesetRule) UnmarshalJSON(data): the receiver after the call and the
\* error returned
RulesetRuleUnmarshalJSON(r, doc) ==
    LET first == FirstPass(doc)
    IN  IF first.err # Nil THEN [rsr |-> r, err |-> first.err]
        ELSE IF first.Type \in ParameterlessTypes
        THEN [rsr |-> [Type |-> first.Type, Parameters |-> ParameterlessCase(first)],
              err |-> Nil]
        ELSE IF first.Type \in ParameterTypes
        THEN LET second == SecondPass(ParametersStruct(first.Type), doc)
             IN  IF second.err # Nil
                 THEN [rsr |-> [Type |-> first.Type, Parameters |-> r.Parameters],
                       err |-> second.err]
                 ELSE [rsr |-> [Type |-> first.Type, Parameters |-> second.Parameters],
                       err |-> Nil]
        ELSE [rsr |-> DefaultCase(first), err |-> "not yet implemented"]

\* one UnmarshalJSON call on the receiver
RuleUnmarshal(doc) ==
    /\ LET out == RulesetRuleUnmarshalJSON(rsr, doc)
       IN  /\ rsr' = out.rsr
           /\ ruleErr' = out.err
    /\ ruleIn' = doc
    /\ UNCHANGED <<pipeVars, seatVars, eventVars, codecVars, statusVars, reqVars, linkVars, tripVars, mockVars>>

RuleInit ==
    /\ rsr = [Type |-> "", Parameters |-> NilParams]
    /\ ruleIn = NoRuleDoc
    /\ ruleErr = "none"

(***************************************************************************)
(* CopilotSeatDetails and its UnmarshalJSON.                               *)
(***************************************************************************)
\* the "type" member of an assignee object: a string, absent, null, or a
\* member that is no string ("<number>")
AssigneeTypeMembers ==
    {"User", "Team", "Organization", "Bot", "<absent>", "<null>", "<number>"}

\* a JSON document handed to UnmarshalJSON: wf says whether it is well formed;
\* assignee is the form of its "assignee" member; type is the "type" member of
\* an assignee object and fits says whether the object's members fit the
\* struct of that type; rest stands for the six other members
SeatDocs ==
    {d \in [wf : BOOLEAN, assignee : {"absent", "null", "scalar", "object"},
            type : AssigneeTypeMembers, fits : BOOLEAN, rest : {"a", "b"}] :
        d.assignee # "object" => d.type = "<absent>" /\ d.fits}

NoSeatDoc ==
    [wf |-> FALSE, assignee |-> "absent", type |-> "<absent>", fits |-> TRUE,
     rest |-> "a"]

\* the Team branch storing the user of the branch above
AssigneeOfCopied(t) ==
    CASE t = "User" -> "*User"
      [] t = "Team" -> "*User"
      [] t = "Organization" -> "*Organization"

\* the pointer stored in Assignee by the branch of assignee type t
AssigneeOf(t) ==
    CASE t = "User" -> "*User"
      [] t = "Team" -> "*Team"
      [] t = "Organization" -> "*Organization"

\* the copy of the six fields that also resets Assignee
CopyFieldsAndReset(c, doc) == [Assignee |-> Nil, rest |-> doc.rest]

\* cp.AssigningTeam = seatDetail.AssigningTeam ... cp.UpdatedAt = seatDetail.UpdatedAt
CopyFields(c, doc) == [c EXCEPT !.rest = doc.rest]

\* (cp *CopilotSeatDetails) UnmarshalJSON(data): the receiver after the call
\* and how the call ended.  The six other fields are copied as soon as the
\* first decode succeeded; v["type"].(string) panics on a type that is no
\* string.
CopilotSeatDetailsUnmarshalJSON(c, doc) ==
    IF ~doc.wf THEN [cp |-> c, out |-> "SyntaxError"]
    ELSE LET c1 == CopyFields(c, doc)
         IN  IF doc.assignee # "object"
             THEN [cp |-> c1, out |-> "unsupported assignee type"]
             ELSE IF doc.type \in {"<absent>", "<null>"}
             THEN [cp |-> c1, out |-> "assignee type field is not set"]
             ELSE IF doc.type = "<number>"
             THEN [cp |-> c1, out |-> "panic"]
             ELSE IF doc.type \in {"User", "Team", "Organization"}
             THEN IF doc.fits
                  THEN [cp |-> [c1 EXCEPT !.Assignee = AssigneeOf(doc.type)],
                        out |-> Nil]
                  ELSE [cp |-> c1, out |-> "UnmarshalTypeError"]
             ELSE [cp |-> c1, out |-> "unsupported assignee type"]

GetUser(c) ==
    IF c.Assignee = "*User" THEN [val |-> c.Assignee, ok |-> TRUE]
    ELSE [val |-> Nil, ok |-> FALSE]

GetTeam(c) ==
    IF c.Assignee = "*Team" THEN [val |-> c.Assignee, ok |-> TRUE]
    ELSE [val |-> Nil, ok |-> FALSE]

GetOrganization(c) ==
    IF c.Assignee = "*Organization" THEN [val |-> c.Assignee, ok |-> TRUE]
    ELSE [val |-> Nil, ok |-> FALSE]

\* one UnmarshalJSON call on the receiver
SeatUnmarshal(doc) ==
    /\ LET out == CopilotSeatDetailsUnmarshalJSON(cp, doc)
       IN  /\ cp' = out.cp
           /\ seatOut' = out.out
    /\ seatIn' = doc
    /\ UNCHANGED <<pipeVars, ruleVars, eventVars, codecVars, statusVars, reqVars, linkVars, tripVars, mockVars>>

SeatInit ==
    /\ cp = [Assignee |-> Nil, rest |-> "zero"]
    /\ seatIn = NoSeatDoc
    /\ seatOut = "none"

(***************************************************************************)
(* Event and its Payload.                                                  *)
(***************************************************************************)
\* the forms of RawPayload: no bytes, bytes that are no JSON, null, an object
\* that fits PushEvent, an object with a member of the wrong JSON type for
\* PushEvent (mismatch), an array
PayloadForms == {"empty", "malformed", "null", "object", "mismatch", "array"}

Events == [Type : {"PushEvent", "IssuesEvent", ""}, RawPayload : PayloadForms]

NoEvent == [Type |-> "", RawPayload |-> "empty"]

NoPayload == [status |-> "none", payload |-> Nil]

\* json.Unmarshal(e.RawPayload, &payload) with payload = &PushEvent{}
DecodePushEvent(raw) ==
    CASE raw = "null" -> [err |-> Nil, payload |-> Nil]
      [] raw = "object" -> [err |-> Nil, payload |-> "*PushEvent"]
      [] raw \in {"empty", "malformed"} -> [err |-> "SyntaxError", payload |-> "*PushEvent"]
      [] OTHER -> [err |-> "UnmarshalTypeError", payload |-> "*PushEvent"]

\* json.Unmarshal(e.RawPayload, &payload) with payload a nil interface
DecodeGeneric(raw) ==
    CASE raw = "null" -> [err |-> Nil, payload |-> Nil]
      [] raw \in {"object", "mismatch"} -> [err |-> Nil, payload |-> "map[string]interface{}"]
      [] raw = "array" -> [err |-> Nil, payload |-> "[]interface{}"]
      [] OTHER -> [err |-> "SyntaxError", payload |-> Nil]

\* what Payload does with the error of json.Unmarshal: panic(err.Error())
OnPayloadError(d) == [status |-> "panic", payload |-> Nil]

\* (e *Event) Payload(): the event after the call, and the call's end
EventPayload(e) ==
    LET d == IF e.Type = "PushEvent" THEN DecodePushEvent(e.RawPayload)
             ELSE DecodeGeneric(e.RawPayload)
    IN  [ev |-> e,
         out |-> IF d.err # Nil THEN OnPayloadError(d)
                 ELSE [status |-> "returned", payload |-> d.payload]]

\* an event arrives
ReceiveEvent(e) ==
    /\ ev' = e
    /\ payloadOut' = NoPayload
    /\ UNCHANGED <<pipeVars, ruleVars, seatVars, codecVars, statusVars, reqVars, linkVars, tripVars, mockVars>>

\* one Payload call on the event
Payload ==
    /\ payloadOut = NoPayload
    /\ ev' = EventPayload(ev).ev
    /\ payloadOut' = EventPayload(ev).out
    /\ UNCHANGED <<pipeVars, ruleVars, seatVars, codecVars, statusVars, reqVars, linkVars, tripVars, mockVars>>

EventInit ==
    /\ ev = NoEvent
    /\ payloadOut = NoPayload

(***************************************************************************)
(* Body types and their JSON encoding (struct tags of encoding/json).      *)
(***************************************************************************)
\* a struct field: its Go name, the name in its json tag, the omitempty
\* option, and the kind of its type.  Every field below carries a tag.
Field(name, key, omitempty, kind) ==
    [name |-> name, key |-> key, omitempty |-> omitempty, kind |-> kind]

PushEvent ==
    {Field("PushID", "push_id", TRUE, "int"),
     Field("Head", "head", TRUE, "string"),
     Field("Ref", "ref", TRUE, "string"),
     Field("Size", "ref", TRUE, "int"),
     Field("Commits", "commits", TRUE, "slice")}

OrganizationEncryptedSecret ==
    {Field("Name", "-", FALSE, "string"),
     Field("KeyID", "key_id", FALSE, "string"),
     Field("EncryptedValue", "encrypted_value", FALSE, "string"),
     Field("Visibility", "visibility", FALSE, "string"),
     Field("SelectedRepositoryIDs", "selected_repository_ids", TRUE, "slice")}

BypassActor ==
    {Field("ActorID", "actor_id", TRUE, "int"),
     Field("ActorType", "actor_type", TRUE, "string")}

\* the body of SetEnabledOrgsInEnterprise: struct { IDs []int64 }
SelectedOrganizationIDs ==
    {Field("IDs", "selected_organization_ids", FALSE, "slice")}

\* the parameter structs of the ruleset rules
UpdateAllowsFetchAndMergeRuleParameters ==
    {Field("UpdateAllowsFetchAndMerge", "update_allows_fetch_and_merge", FALSE, "bool")}

RequiredDeploymentEnvironmentsRuleParameters ==
    {Field("RequiredDeploymentEnvironments", "required_deployment_environments",
           FALSE, "slice")}

RulePatternParameters ==
    {Field("Name", "name", TRUE, "ptr"),
     Field("Negate", "negate", TRUE, "ptr"),
     Field("Operator", "operator", FALSE, "string"),
     Field("Pattern", "pattern", FALSE, "string")}

PullRequestRuleParameters ==
    {Field("DismissStaleReviewsOnPush", "dismiss_stale_reviews_on_push", FALSE, "bool"),
     Field("RequireCodeOwnerReview", "require_code_owner_review", FALSE, "bool"),
     Field("RequireLastPushApproval", "require_last_push_approval", FALSE, "bool"),
     Field("RequiredApprovingReviewCount", "required_approving_review_count",
           FALSE, "int"),
     Field("RequiredReviewThreadResolution", "required_review_thread_resolution",
           FALSE, "bool")}

RequiredStatusChecksRuleParameters ==
    {Field("RequiredStatusChecks", "required_status_checks", FALSE, "slice"),
     Field("StrictRequiredStatusChecksPolicy", "strict_required_status_checks_policy",
           FALSE, "bool")}

BodyTypes == {"PushEvent", "OrganizationEncryptedSecret", "BypassActor"}

Fields(T) ==
    CASE T = "PushEvent" -> PushEvent
      [] T = "OrganizationEncryptedSecret" -> OrganizationEncryptedSecret
      [] T = "BypassActor" -> BypassActor
      [] T = "SelectedOrganizationIDs" -> SelectedOrganizationIDs
      [] T = "UpdateAllowsFetchAndMergeRuleParameters" ->
           UpdateAllowsFetchAndMergeRuleParameters
      [] T = "RequiredDeploymentEnvironmentsRuleParameters" ->
           RequiredDeploymentEnvironmentsRuleParameters
      [] T = "RulePatternParameters" -> RulePatternParameters
      [] T = "PullRequestRuleParameters" -> PullRequestRuleParameters
      [] T = "RequiredStatusChecksRuleParameters" -> RequiredStatusChecksRuleParameters

\* the values of each type: every field either zero or set
BodyValues(T) ==
    CASE T = "PushEvent" ->
           [PushID : {0, 1}, Head : {"", "abc"}, Ref : {"", "refs/heads/master"},
            Size : {0, 1}, Commits : {<<>>, <<"commit">>}]
      [] T = "OrganizationEncryptedSecret" ->
           [Name : {"", "NAME"}, KeyID : {"", "1234"}, EncryptedValue : {"", "QIv="},
            Visibility : {"", "selected"}, SelectedRepositoryIDs : {<<>>, <<"1296269">>}]
      [] T = "BypassActor" ->
           [ActorID : {0, 1}, ActorType : {"", "Team"}]
      [] T = "UpdateAllowsFetchAndMergeRuleParameters" ->
           [UpdateAllowsFetchAndMerge : BOOLEAN]
      [] T = "RequiredDeploymentEnvironmentsRuleParameters" ->
           [RequiredDeploymentEnvironments : {<<>>, <<"test">>}]
      [] T = "RulePatternParameters" ->
           [Name : {Nil, "&avoid"}, Negate : {Nil, "&false", "&true"},
            Operator : {"", "starts_with"}, Pattern : {"", "github"}]
      [] T = "PullRequestRuleParameters" ->
           [DismissStaleReviewsOnPush : BOOLEAN, RequireCodeOwnerReview : BOOLEAN,
            RequireLastPushApproval : BOOLEAN, RequiredApprovingReviewCount : {0, 2},
            RequiredReviewThreadResolution : BOOLEAN]
      [] T = "RequiredStatusChecksRuleParameters" ->
           [RequiredStatusChecks : {<<>>, <<"ci">>},
            StrictRequiredStatusChecksPolicy : BOOLEAN]

\* the zero value of a kind
Zero(kind) ==
    CASE kind = "int" -> 0
      [] kind = "string" -> ""
      [] kind = "slice" -> <<>>
      [] kind = "bool" -> FALSE
      [] kind = "ptr" -> Nil

\* omitempty's test: false, 0, a nil pointer, or an array, slice, map or
\* string of length zero
IsEmptyValue(kind, x) == x = Zero(kind)

\* encoding/json keeps a field when its tag is not "-" and no other field of
\* the struct carries the same name; of tagged fields of one name at one
\* depth it keeps none
VisibleFields(T) ==
    {f \in Fields(T) :
        /\ f.key # "-"
        /\ Cardinality({g \in Fields(T) : g.key = f.key}) = 1}

FieldOfKey(T, k) == CHOOSE f \in VisibleFields(T) : f.key = k

\* json.Marshal(v): the object's members
Marshal(T, v) ==
    LET keys == {f.key : f \in {g \in VisibleFields(T) :
                     ~(g.omitempty /\ IsEmptyValue(g.kind, v[g.name]))}}
    IN  [k \in keys |-> v[FieldOfKey(T, k).name]]

\* json.Unmarshal(j, new(T)): members fill the visible fields, the other
\* fields keep the zero value
Unmarshal(T, j) ==
    LET names == {f.name : f \in Fields(T)}
        fieldOf(n) == CHOOSE f \in Fields(T) : f.name = n
    IN  [n \in names |->
            IF fieldOf(n) \in VisibleFields(T) /\ fieldOf(n).key \in DOMAIN j
            THEN j[fieldOf(n).key]
            ELSE Zero(fieldOf(n).kind)]

NoBody == [type |-> "none", value |-> <<>>]

\* a body value is encoded for sending
Encode(T, v) ==
    /\ codecPc \in {"idle", "decoded"}
    /\ codecIn' = [type |-> T, value |-> v]
    /\ wire' = Marshal(T, v)
    /\ codecOut' = <<>>
    /\ codecPc' = "encoded"
    /\ UNCHANGED <<pipeVars, ruleVars, seatVars, eventVars, statusVars, reqVars, linkVars, tripVars, mockVars>>

\* the JSON is decoded into a fresh value of the same type
DecodeBody ==
    /\ codecPc = "encoded"
    /\ codecOut' = Unmarshal(codecIn.type, wire)
    /\ codecPc' = "decoded"
    /\ UNCHANGED <<codecIn, wire>>
    /\ UNCHANGED <<pipeVars, ruleVars, seatVars, eventVars, statusVars, reqVars, linkVars, tripVars, mockVars>>

CodecInit ==
    /\ codecPc = "idle"
    /\ codecIn = NoBody
    /\ wire = <<>>
    /\ codecOut = <<>>

(***************************************************************************)
(* The wrappers whose result depends on the status of the response: the   *)
(* statistics endpoints and the boolean checks.                            *)
(***************************************************************************)
\* the status codes a server answers with: success with a body, accepted
\* (still computing), no content, not found, server error
Statuses == {200, 202, 204, 404, 500}

BodyForms == {"empty", "json", "malformed"}

\* one transport exchange: sent says whether a response came back at all
StatusExchanges ==
    {x \in [sent : BOOLEAN, status : Statuses, body : BodyForms] :
        ~x.sent => x.status = 200 /\ x.body = "empty"}

\* a nil *Response
NilResponse == [status |-> 0]

\* the error client.Do returns for a response of the given status: the
\* statistics wrappers document a non-nil error together with status 202
StatusError(status) ==
    CASE status = 202 -> "AcceptedError"
      [] status = 404 -> "ErrorResponse 404"
      [] status >= 400 -> "ErrorResponse"
      [] OTHER -> Nil

\* client.Do(req, v) seen from its caller: the response, the error and the
\* decode target after the call
DoResult(x, t) ==
    IF ~x.sent THEN [resp |-> NilResponse, err |-> "TransportError", target |-> t]
    ELSE IF StatusError(x.status) # Nil
    THEN [resp |-> [status |-> x.status], err |-> StatusError(x.status), target |-> t]
    ELSE IF t \in {Nil, NoSlot} \/ x.body = "empty"
    THEN [resp |-> [status |-> x.status], err |-> Nil, target |-> t]
    ELSE IF x.body = "json"
    THEN [resp |-> [status |-> x.status], err |-> Nil, target |-> "decoded"]
    ELSE [resp |-> [status |-> x.status], err |-> "DecodeError", target |-> "partial"]

\* ListContributorsStats, ListCommitActivity, ListParticipation: the target
\* is new(T); nil, resp, err when Do failed and target, resp, err otherwise
StatsReturn(buildErr, x) ==
    IF buildErr # Nil THEN [sig |-> "val_resp_err", val |-> Nil, resp |-> NilResponse, err |-> buildErr]
    ELSE LET d == DoResult(x, "zero")
         IN  IF d.err # Nil
             THEN [sig |-> "val_resp_err", val |-> Nil, resp |-> d.resp, err |-> d.err]
             ELSE [sig |-> "val_resp_err", val |-> d.target, resp |-> d.resp, err |-> d.err]

StatsWrappers == {"ListContributorsStats", "ListCommitActivity", "ListParticipation"}

\* parseBoolResponse(err): no error is true, a 404 is false, any other error
\* is false with the error
parseBoolResponse(err) ==
    IF err = Nil THEN [val |-> TRUE, err |-> Nil]
    ELSE IF err = "ErrorResponse 404" THEN [val |-> FALSE, err |-> Nil]
    ELSE [val |-> FALSE, err |-> err]

\* resp, err := s.client.Do(ctx, req, nil); isBlocked, err := parseBoolResponse(err)
CheckIfUserIsBlocked(buildErr, x) ==
    IF buildErr # Nil THEN [sig |-> "val_resp_err", val |-> FALSE, resp |-> NilResponse, err |-> buildErr]
    ELSE LET d == DoResult(x, Nil)
             b == parseBoolResponse(d.err)
         IN  [sig |-> "val_resp_err", val |-> b.val, resp |-> d.resp, err |-> b.err]

\* star, err := client.Gists.Starred("1"): two results, no *Response
GistsStarred(buildErr, x) ==
    IF buildErr # Nil THEN [sig |-> "val_err", val |-> FALSE, resp |-> NilResponse, err |-> buildErr]
    ELSE LET b == parseBoolResponse(DoResult(x, Nil).err)
         IN  [sig |-> "val_err", val |-> b.val, resp |-> NilResponse, err |-> b.err]

BoolWrappers == {"CheckIfUserIsBlocked", "GistsStarred"}

NoStatusCall == [w |-> "none", seg |-> "e", x |-> [sent |-> FALSE, status |-> 200, body |-> "empty"]]

NoStatusRet == [sig |-> "none", val |-> Nil, resp |-> NilResponse, err |-> Nil]

\* one call of a statistics wrapper for repository seg, meeting exchange x
StatsCall(w, seg, x) ==
    /\ stIn' = [w |-> w, seg |-> seg, x |-> x]
    /\ stRet' = StatsReturn(NewRequest(seg), x)
    /\ UNCHANGED <<pipeVars, ruleVars, seatVars, eventVars, codecVars, reqVars, linkVars, tripVars, mockVars>>

\* one call of a boolean check for user or gist seg, meeting exchange x
BoolCall(w, seg, x) ==
    /\ stIn' = [w |-> w, seg |-> seg, x |-> x]
    /\ stRet' = IF w = "CheckIfUserIsBlocked"
                THEN CheckIfUserIsBlocked(NewRequest(seg), x)
                ELSE GistsStarred(NewRequest(seg), x)
    /\ UNCHANGED <<pipeVars, ruleVars, seatVars, eventVars, codecVars, reqVars, linkVars, tripVars, mockVars>>

StatusInit ==
    /\ stIn = NoStatusCall
    /\ stRet = NoStatusRet

(***************************************************************************)
(* The request each wrapper hands to client.Do: path, query, body and     *)
(* headers.  A path is the sequence of its segments, a query the function *)
(* from its keys to their values (url.Values.Encode writes one key=value  *)
(* per key, an empty value included), mark says whether the URL holds a   *)
(* "?".                                                                    *)
(***************************************************************************)
\* the user, org or owner argument: "" selects the authenticated user
Names == {"", "o", "user"}

\* strconv.Itoa, and %v of an integer
Itoa(n) ==
    CASE n = 0 -> "0"
      [] n = 1 -> "1"
      [] n = 2 -> "2"

IntFields == {"Page", "PerPage"}

\* the options structs; nil says the pointer is nil
StarredOptions ==
    {o \in [nil : BOOLEAN, Sort : {"", "created"}, Direction : {"", "desc"}, Page : 0..2] :
        o.nil => o.Sort = "" /\ o.Direction = "" /\ o.Page = 0}

RepositoryListOptions ==
    {o \in [nil : BOOLEAN, Type : {"", "owner"}, Sort : {"", "created"},
            Direction : {"", "desc"}, Page : 0..2] :
        o.nil => o.Type = "" /\ o.Sort = "" /\ o.Direction = "" /\ o.Page = 0}

ListOptions ==
    {o \in [nil : BOOLEAN, Page : 0..2, PerPage : {0, 2}] :
        o.nil => o.Page = 0 /\ o.PerPage = 0}

DiscussionListOptions ==
    {o \in [nil : BOOLEAN, Direction : {"", "desc"}, Page : 0..2, PerPage : {0, 2}] :
        o.nil => o.Direction = "" /\ o.Page = 0 /\ o.PerPage = 0}

SearchOptions ==
    {o \in [nil : BOOLEAN, Sort : {"", "created"}, Order : {"", "desc"}, Page : 0..1,
            PerPage : {0, 2}, TextMatch : BOOLEAN] :
        o.nil => o.Sort = "" /\ o.Order = "" /\ o.Page = 0 /\ o.PerPage = 0 /\ ~o.TextMatch}

\* the key an options field is declared under: its url tag
DeclaredKey(f) ==
    CASE f = "Direction" -> "direction"
      [] f = "Page" -> "page"
      [] f = "PerPage" -> "per_page"

FieldString(f, v) == IF f \in IntFields THEN Itoa(v) ELSE v

IsDefault(f, v) == IF f \in IntFields THEN v = 0 ELSE v = ""

NoQuery == [k \in {} |-> ""]

URL(path, mark, query) == [path |-> path, mark |-> mark, query |-> query]

\* addOptions writing every field of the struct, a default one included
addOptionsEveryField(path, opts) ==
    IF opts.nil THEN URL(path, FALSE, NoQuery)
    ELSE LET fs == DOMAIN opts \ {"nil"}
         IN  URL(path, TRUE,
                 [k \in {DeclaredKey(f) : f \in fs} |->
                     LET f == CHOOSE g \in fs : DeclaredKey(g) = k
                     IN  FieldString(f, opts[f])])

\* addOptions(s, opts): nil options leave the URL as it is; otherwise each
\* field with a non-default value becomes a parameter under its declared key
addOptionsURL(path, opts) ==
    IF opts.nil THEN URL(path, FALSE, NoQuery)
    ELSE LET fs == {f \in DOMAIN opts \ {"nil"} : ~IsDefault(f, opts[f])}
         IN  URL(path, fs # {},
                 [k \in {DeclaredKey(f) : f \in fs} |->
                     LET f == CHOOSE g \in fs : DeclaredKey(g) = k
                     IN  FieldString(f, opts[f])])

\* u += "?" + params.Encode() for a url.Values literal
HandQuery(path, opt, params) ==
    IF opt.nil THEN URL(path, FALSE, NoQuery) ELSE URL(path, TRUE, params)

NoJSON == [present |-> FALSE, json |-> NoQuery]

JSONBody(j) == [present |-> TRUE, json |-> j]

mediaTypeV3 == "application/vnd.github.v3+json"

mimePreview == "application/vnd.github.preview"

mediaTypeIntegrationPreview == "application/vnd.github.machine-man-preview+json"

\* client.NewRequest(verb, u, body): a non-nil body is attached as JSON with
\* its Content-Type; the default Accept header is always set
BuildRequest(verb, u, body) ==
    [verb |-> verb, url |-> u, body |-> body,
     ctype |-> IF body.present THEN "application/json" ELSE "",
     accept |-> <<mediaTypeV3>>]

\* req.Header.Set(key, value) and req.Header.Add(key, value) on Accept
HeaderSet(r, v) == [r EXCEPT !.accept = <<v>>]

HeaderAdd(r, v) == [r EXCEPT !.accept = Append(@, v)]

(***************************************************************************)
(* The wrappers' requests.                                                 *)
(***************************************************************************)
\* ActivityService.ListStarred
ListStarredUnnamed(user, opt) ==
    BuildRequest("GET",
        HandQuery(<<"user", "starred">>, opt,
                  [sort |-> opt.Sort, direction |-> opt.Direction, page |-> Itoa(opt.Page)]),
        NoJSON)

ListStarredRequest(user, opt) ==
    BuildRequest("GET",
        HandQuery(IF user # "" THEN <<"users", user, "starred">> ELSE <<"user", "starred">>,
                  opt,
                  [sort |-> opt.Sort, direction |-> opt.Direction, page |-> Itoa(opt.Page)]),
        NoJSON)

\* RepositoriesService.List
RepositoriesListRequest(user, opt) ==
    BuildRequest("GET",
        HandQuery(IF user # "" THEN <<"users", user, "repos">> ELSE <<"user", "repos">>,
                  opt,
                  [type |-> opt.Type, sort |-> opt.Sort, direction |-> opt.Direction,
                   page |-> Itoa(opt.Page)]),
        NoJSON)

\* RepositoriesService.Create
RepositoriesCreateRequest(org, repo) ==
    BuildRequest("POST",
        URL(IF org # "" THEN <<"orgs", org, "repos">> ELSE <<"user", "repos">>,
            FALSE, NoQuery),
        JSONBody([name |-> repo]))

\* ActivityService.ListPublicEvents
ListPublicEventsRequest(opt) ==
    BuildRequest("GET", HandQuery(<<"events">>, opt, [page |-> Itoa(opt.Page)]), NoJSON)

\* ActionsService.ListEnabledOrgsInEnterprise
ListEnabledOrgsInEnterpriseRequest(owner, opts) ==
    BuildRequest("GET",
        addOptionsURL(<<"enterprises", owner, "actions", "permissions", "organizations">>, opts),
        NoJSON)

\* TeamsService.ListDiscussionsByID, as its test calls it
ListDiscussionsByIDRequest(opts) ==
    BuildRequest("GET",
        addOptionsURL(<<"organizations", "1", "team", "2", "discussions">>, opts), NoJSON)

\* AppsService.ListInstallations
ListInstallationsRequest(opt) ==
    HeaderSet(BuildRequest("GET", addOptionsURL(<<"app", "installations">>, opt), NoJSON),
              mediaTypeIntegrationPreview)

\* fmt.Sprintf("%s.text-match+json", mimePreview)
TextMatchType(m) ==
    CASE m = mimePreview -> "application/vnd.github.preview.text-match+json"

\* modSearchHeader(req, textMatch)
modSearchHeader(r, textMatch) ==
    IF textMatch THEN HeaderAdd(r, TextMatchType(mimePreview)) ELSE HeaderAdd(r, mimePreview)

\* SearchService.search
searchRequest(searchType, query, opt) ==
    LET keys == {"q"}
                \cup (IF ~opt.nil /\ opt.Sort # "" THEN {"sort"} ELSE {})
                \cup (IF ~opt.nil /\ opt.Order # "" THEN {"order"} ELSE {})
                \cup (IF ~opt.nil /\ opt.Page > 0 THEN {"page"} ELSE {})
                \cup (IF ~opt.nil /\ opt.PerPage > 0 THEN {"per_page"} ELSE {})
        params == [k \in keys |->
                     CASE k = "q" -> query
                       [] k = "sort" -> opt.Sort
                       [] k = "order" -> opt.Order
                       [] k = "page" -> Itoa(opt.Page)
                       [] k = "per_page" -> Itoa(opt.PerPage)]
    IN  modSearchHeader(
            BuildRequest("GET", URL(<<"search", searchType>>, TRUE, params), NoJSON),
            ~opt.nil /\ opt.TextMatch)

\* SetEnabledOrgsInEnterprise sending no body
SetEnabledOrgsNoBody(owner, ids) ==
    BuildRequest("PUT",
        URL(<<"enterprises", owner, "actions", "permissions", "organizations">>, FALSE, NoQuery),
        NoJSON)

\* ActionsService.SetEnabledOrgsInEnterprise
SetEnabledOrgsInEnterpriseRequest(owner, ids) ==
    BuildRequest("PUT",
        URL(<<"enterprises", owner, "actions", "permissions", "organizations">>, FALSE, NoQuery),
        JSONBody(Marshal("SelectedOrganizationIDs", [IDs |-> ids])))

\* ActionsService.AddEnabledOrgInEnterprise (PUT) and RemoveEnabledOrgInEnterprise (DELETE)
EnabledOrgInEnterpriseRequest(verb, owner, id) ==
    BuildRequest(verb,
        URL(<<"enterprises", owner, "actions", "permissions", "organizations", Itoa(id)>>,
            FALSE, NoQuery),
        NoJSON)

\* CreateOrUpdateSecret sending the name as a member of the body as well
CreateOrUpdateSecretNamed(owner, eSecret) ==
    BuildRequest("PUT",
        URL(<<"orgs", owner, "actions", "secrets", eSecret.Name>>, FALSE, NoQuery),
        JSONBody([k \in {"name"} \cup DOMAIN Marshal("OrganizationEncryptedSecret", eSecret) |->
                    IF k = "name" THEN eSecret.Name
                    ELSE Marshal("OrganizationEncryptedSecret", eSecret)[k]]))

\* OrganizationsService.CreateOrUpdateSecret
CreateOrUpdateSecretRequest(owner, eSecret) ==
    BuildRequest("PUT",
        URL(<<"orgs", owner, "actions", "secrets", eSecret.Name>>, FALSE, NoQuery),
        JSONBody(Marshal("OrganizationEncryptedSecret", eSecret)))

(***************************************************************************)
(* One step per wrapper: it builds its request from its arguments.        *)
(***************************************************************************)
NoOpt == [nil |-> TRUE]

NoRequest == BuildRequest("", URL(<<>>, FALSE, NoQuery), NoJSON)

\* the record of a call: wrapper w with name, options opt and a further argument
Called(w, name, opt, arg) == [w |-> w, name |-> name, opt |-> opt, arg |-> arg]

\* what building a request leaves alone
notRequest ==
    <<pipeVars, ruleVars, seatVars, eventVars, codecVars, statusVars, linkVars, tripVars, mockVars>>

BuildListStarred(user, opt) ==
    /\ reqIn' = Called("ListStarred", user, opt, "")
    /\ req' = ListStarredRequest(user, opt)
    /\ UNCHANGED notRequest

BuildRepositoriesList(user, opt) ==
    /\ reqIn' = Called("RepositoriesList", user, opt, "")
    /\ req' = RepositoriesListRequest(user, opt)
    /\ UNCHANGED notRequest

BuildRepositoriesCreate(org, repo) ==
    /\ reqIn' = Called("RepositoriesCreate", org, NoOpt, repo)
    /\ req' = RepositoriesCreateRequest(org, repo)
    /\ UNCHANGED notRequest

BuildListPublicEvents(opt) ==
    /\ reqIn' = Called("ListPublicEvents", "", opt, "")
    /\ req' = ListPublicEventsRequest(opt)
    /\ UNCHANGED notRequest

BuildListEnabledOrgsInEnterprise(owner, opts) ==
    /\ reqIn' = Called("ListEnabledOrgsInEnterprise", owner, opts, "")
    /\ req' = ListEnabledOrgsInEnterpriseRequest(owner, opts)
    /\ UNCHANGED notRequest

BuildListDiscussionsByID(opts) ==
    /\ reqIn' = Called("ListDiscussionsByID", "", opts, "")
    /\ req' = ListDiscussionsByIDRequest(opts)
    /\ UNCHANGED notRequest

BuildListInstallations(opt) ==
    /\ reqIn' = Called("ListInstallations", "", opt, "")
    /\ req' = ListInstallationsRequest(opt)
    /\ UNCHANGED notRequest

BuildSearch(searchType, query, opt) ==
    /\ reqIn' = Called("search", searchType, opt, query)
    /\ req' = searchRequest(searchType, query, opt)
    /\ UNCHANGED notRequest

BuildSetEnabledOrgsInEnterprise(owner, ids) ==
    /\ reqIn' = Called("SetEnabledOrgsInEnterprise", owner, NoOpt, ids)
    /\ req' = SetEnabledOrgsInEnterpriseRequest(owner, ids)
    /\ UNCHANGED notRequest

BuildAddEnabledOrgInEnterprise(owner, id) ==
    /\ reqIn' = Called("AddEnabledOrgInEnterprise", owner, NoOpt, id)
    /\ req' = EnabledOrgInEnterpriseRequest("PUT", owner, id)
    /\ UNCHANGED notRequest

BuildRemoveEnabledOrgInEnterprise(owner, id) ==
    /\ reqIn' = Called("RemoveEnabledOrgInEnterprise", owner, NoOpt, id)
    /\ req' = EnabledOrgInEnterpriseRequest("DELETE", owner, id)
    /\ UNCHANGED notRequest

BuildCreateOrUpdateSecret(owner, eSecret) ==
    /\ reqIn' = Called("CreateOrUpdateSecret", owner, NoOpt, eSecret)
    /\ req' = CreateOrUpdateSecretRequest(owner, eSecret)
    /\ UNCHANGED notRequest

\* the lists of organization ids handed to SetEnabledOrgsInEnterprise
IDLists == {<<>>, <<1>>, <<1, 2>>, <<2, 1>>}

RequestInit ==
    /\ reqIn = Called("none", "", NoOpt, "")
    /\ req = NoRequest

(***************************************************************************)
(* The pagination helper.                                                  *)
(***************************************************************************)
\* the most entries a Link header of the model holds
MaxLinks == 2

\* the relation names of the cursor set, and one the helper does not know
CursorNames == {"first", "prev", "next", "last"}

Relations == CursorNames \cup {"search"}

LinkURLs ==
    {"https://api.example/x?page=1", "https://api.example/x?page=2",
     "https://api.example/x?page=3"}

\* the page a URL's query names
PageOf(url) ==
    CASE url = "https://api.example/x?page=1" -> "1"
      [] url = "https://api.example/x?page=2" -> "2"
      [] url = "https://api.example/x?page=3" -> "3"

\* the Link headers: absent, or up to MaxLinks entries <url>; rel="name" with
\* distinct relation names
LinkHeaders ==
    {[present |-> FALSE, links |-> <<>>]}
    \cup {[present |-> TRUE, links |-> l] :
            l \in {s \in UNION {[1..n -> [url : LinkURLs, rel : Relations]] : n \in 0..MaxLinks} :
                     \A i, j \in DOMAIN s : i # j => s[i].rel # s[j].rel}}

\* a cursor taken from the first entry, whatever its relation name
CursorOfAnyRel(h, name) ==
    IF h.present /\ Len(h.links) > 0 THEN PageOf(h.links[1].url) ELSE Nil

\* the cursor of relation name in header h
CursorOf(h, name) ==
    IF h.present /\ \E i \in DOMAIN h.links : h.links[i].rel = name
    THEN PageOf(h.links[CHOOSE i \in DOMAIN h.links : h.links[i].rel = name].url)
    ELSE Nil

\* ExtractCursors(headers) -> CursorSet
ExtractCursors(h) == [n \in CursorNames |-> CursorOf(h, n)]

\* the helper parses the Link header of one response
Extract(h) ==
    /\ linkIn' = h
    /\ cursors' = ExtractCursors(h)
    /\ UNCHANGED <<pipeVars, ruleVars, seatVars, eventVars, codecVars, statusVars, reqVars, tripVars, mockVars>>

LinkInit ==
    /\ linkIn = [present |-> FALSE, links |-> <<>>]
    /\ cursors = [n \in CursorNames |-> Nil]

(***************************************************************************)
(* The New*Rule constructors, and a rule's way through json.Marshal and    *)
(* RulesetRule.UnmarshalJSON.                                              *)
(***************************************************************************)
\* the rule type each constructor sets
Constructors ==
    [NewCreationRule |-> "creation",
     NewUpdateRule |-> "update",
     NewDeletionRule |-> "deletion",
     NewRequiredLinearHistoryRule |-> "required_linear_history",
     NewRequiredDeploymentsRule |-> "required_deployments",
     NewRequiredSignaturesRule |-> "required_signatures",
     NewPullRequestRule |-> "pull_request",
     NewRequiredStatusChecksRule |-> "required_status_checks",
     NewNonFastForwardRule |-> "non_fast_forward",
     NewCommitMessagePatternRule |-> "commit_message_pattern",
     NewCommitAuthorEmailPatternRule |-> "commit_author_email_pattern",
     NewCommitterEmailPatternRule |-> "committer_email_pattern",
     NewBranchNamePatternRule |-> "branch_name_pattern",
     NewTagNamePatternRule |-> "tag_name_pattern"]

NoStruct == [none |-> TRUE]

\* the values of the Parameters interface: nil, a nil pointer of type *T, or
\* a pointer to a T
NilInterface == [kind |-> "nil", ptr |-> Nil, val |-> NoStruct]

NilPointer(T) == [kind |-> "nilptr", ptr |-> T, val |-> NoStruct]

PointerTo(T, v) == [kind |-> "ptr", ptr |-> T, val |-> v]

\* the arguments a constructor accepts: none, or a *T of its parameter type
ConstructorArgs(c) ==
    IF Constructors[c] \in ParameterlessTypes THEN {NilInterface}
    ELSE LET T == ParametersStruct(Constructors[c])
         IN  {NilPointer(T)} \cup {PointerTo(T, v) : v \in BodyValues(T)}

\* New*Rule(params): RulesetRule{Type: ..., Parameters: params}
NewRule(c, params) == [Type |-> Constructors[c], Parameters |-> params]

\* json.Marshal of a RulesetRule: "type" always; "parameters" unless the
\* interface is nil (omitempty): null for a nil pointer held by the
\* interface, the struct's object otherwise
MarshalRule(rule) ==
    [wf |-> TRUE,
     type |-> rule.Type,
     params |-> CASE rule.Parameters.kind = "nil" -> "absent"
                  [] rule.Parameters.kind = "nilptr" -> "null"
                  [] rule.Parameters.kind = "ptr" -> "object",
     members |-> IF rule.Parameters.kind = "ptr"
                 THEN Marshal(rule.Parameters.ptr, rule.Parameters.val)
                 ELSE <<>>]

\* UnmarshalJSON on a fresh receiver, with the struct the second pass filled
UnmarshalRule(j) ==
    LET out == RulesetRuleUnmarshalJSON([Type |-> "", Parameters |-> NilParams], j)
        P == out.rsr.Parameters
    IN  [err |-> out.err,
         Type |-> out.rsr.Type,
         Parameters |->
             IF P = NilParams THEN NilInterface
             ELSE IF P.val = "filled" THEN PointerTo(P.ptr, Unmarshal(P.ptr, j.members))
             ELSE PointerTo(P.ptr, Unmarshal(P.ptr, <<>>))]

NoRule == [Type |-> "", Parameters |-> NilInterface]

NoRuleJSON == [wf |-> FALSE, type |-> "<absent>", params |-> "absent", members |-> <<>>]

NoRebuilt == [err |-> "none", Type |-> "", Parameters |-> NilInterface]

notTrip ==
    <<pipeVars, ruleVars, seatVars, eventVars, codecVars, statusVars, reqVars, linkVars, mockVars>>

\* a rule is built by a constructor
Construct(c, params) ==
    /\ tripPc \in {"idle", "unmarshalled"}
    /\ built' = NewRule(c, params)
    /\ ruleWire' = NoRuleJSON
    /\ rebuilt' = NoRebuilt
    /\ tripPc' = "built"
    /\ UNCHANGED notTrip

\* the rule is marshalled
MarshalBuilt ==
    /\ tripPc = "built"
    /\ ruleWire' = MarshalRule(built)
    /\ tripPc' = "marshalled"
    /\ UNCHANGED <<built, rebuilt>>
    /\ UNCHANGED notTrip

\* the JSON is unmarshalled into a fresh RulesetRule
UnmarshalBuilt ==
    /\ tripPc = "marshalled"
    /\ rebuilt' = UnmarshalRule(ruleWire)
    /\ tripPc' = "unmarshalled"
    /\ UNCHANGED <<built, ruleWire>>
    /\ UNCHANGED notTrip

TripInit ==
    /\ tripPc = "idle"
    /\ built = NoRule
    /\ ruleWire = NoRuleJSON
    /\ rebuilt = NoRebuilt

(***************************************************************************)
(* The mock transport: RequestMatch, MockRoundTripper, NewMockHttpClient.  *)
(***************************************************************************)
\* the path segments the requests are made of; a path is a sequence of them
\* ("/users/octocat" is <<"users", "octocat">>, the empty path is <<>>)
PathSegments == {"users", "orgs", "repos", "octocat", "Octo", "octo1"}

\* the longest prefix of a segment that [a-zA-Z]+ matches, "" when none
LettersPrefix(seg) == IF seg = "octo1" THEN "octo" ELSE seg

\* the longest prefix of a segment that [a-z]+ matches, "" when none
LowerPrefix(seg) ==
    CASE seg = "octo1" -> "octo"
      [] seg = "Octo" -> ""
      [] OTHER -> seg

\* the requests sent through the mock
Requests ==
    [Method : {"GET"},
     Path : {<<>>, <<"users", "octocat">>, <<"users", "Octo">>, <<"users", "octo1">>,
             <<"users", "orgs">>, <<"users", "octocat", "orgs">>,
             <<"orgs", "octocat">>, <<"repos">>}]
    \cup [Method : {"POST"}, Path : {<<"users", "octocat">>, <<"orgs", "octocat">>}]

\* EndpointPattern.FindString(path): the leftmost match, <<>> ("") when the
\* pattern does not match
FindString(pattern, path) ==
    CASE pattern = "UsersGetEndpoint" ->
           \* ^\/users\/[a-zA-Z]+
           IF Len(path) >= 2 /\ path[1] = "users" /\ LettersPrefix(path[2]) # ""
           THEN <<"users", LettersPrefix(path[2])>> ELSE <<>>
      [] pattern = "OrgsListEndpoint" ->
           \* ^\/users\/([a-z]+\/orgs|orgs)$
           IF \/ path = <<"users", "orgs">>
              \/ /\ Len(path) = 3
                 /\ path[1] = "users"
                 /\ LowerPrefix(path[2]) = path[2]
                 /\ path[3] = "orgs"
           THEN path ELSE <<>>
      [] pattern = "OrgsGetEndpoint" ->
           \* ^\/orgs\/[a-z]+
           IF Len(path) >= 2 /\ path[1] = "orgs" /\ LowerPrefix(path[2]) # ""
           THEN <<"orgs", LowerPrefix(path[2])>> ELSE <<>>

RequestMatchUsersGet == [EndpointPattern |-> "UsersGetEndpoint", Method |-> "GET"]

RequestMatchOrganizationsList == [EndpointPattern |-> "OrgsListEndpoint", Method |-> "GET"]

\* the RequestMatch values the options register: the two the package
\* declares and one a caller builds from OrgsGetEndpoint
RequestMatches ==
    {RequestMatchUsersGet, RequestMatchOrganizationsList,
     [EndpointPattern |-> "OrgsGetEndpoint", Method |-> "POST"]}

\* (rm *RequestMatch) Match(r)
Match(rm, r) ==
    /\ r.Method = rm.Method
    /\ r.Path = FindString(rm.EndpointPattern, r.Path)

\* the marshalled bodies handed to WithRequestMatch
Bodies == {"user", "orgs"}

\* WithRequestMatch(rm, marshalled) applied to the round tripper's map
WithRequestMatch(mocks, rm, marshalled) ==
    LET base == IF rm \in DOMAIN mocks THEN mocks
                ELSE [k \in DOMAIN mocks \cup {rm} |->
                         IF k = rm THEN <<>> ELSE mocks[k]]
    IN  [base EXCEPT ![rm] = Append(@, marshalled)]

NoMocks == [k \in {} |-> <<>>]

\* for _, o := range options { o(trips) }
RECURSIVE ApplyOptions(_, _)
ApplyOptions(mocks, options) ==
    IF options = <<>> THEN mocks
    ELSE ApplyOptions(WithRequestMatch(mocks, Head(options)[1], Head(options)[2]),
                      Tail(options))

\* no RequestMatch selected
NoMatch == [EndpointPattern |-> "none", Method |-> ""]

\* the deferred function slicing the queue's last body off: [:len-1]
PopLast(mocks, rm) == [mocks EXCEPT ![rm] = SubSeq(@, 1, Len(@) - 1)]

\* the deferred function deleting a RequestMatch whose queue it has emptied
PopAndDelete(mocks, rm) ==
    IF Len(mocks[rm]) = 1
    THEN [k \in DOMAIN mocks \ {rm} |-> mocks[k]]
    ELSE [mocks EXCEPT ![rm] = Tail(@)]

\* the deferred function: mrt.RequestMocks[rm] = mrt.RequestMocks[rm][1:]
Pop(mocks, rm) == [mocks EXCEPT ![rm] = Tail(@)]

\* the response body taken from the end of the queue
LastBody(respBodies) == respBodies[Len(respBodies)]

\* resp := respBodies[0]
FirstBody(respBodies) == Head(respBodies)

\* RoundTrip when the range loop reaches rm first among the matching keys:
\* panic(nil) on an empty queue, else status 200 with the head, popped on return
RoundTripVia(mocks, rm) ==
    IF Len(mocks[rm]) = 0
    THEN [kind |-> "panic", status |-> 0, body |-> Nil, sel |-> rm, mocks |-> mocks]
    ELSE [kind |-> "response", status |-> 200, body |-> FirstBody(mocks[rm]), sel |-> rm,
          mocks |-> Pop(mocks, rm)]

\* the keys of the map that match r
Matching(mocks, r) == {rm \in DOMAIN mocks : Match(rm, r)}

\* RoundTrip(r): the range over the map visits the keys in an order the
\* runtime chooses, so any matching key can be the one selected; with no
\* matching key the result is a nil response and an error
RoundTripOutcomes(mocks, r) ==
    IF Matching(mocks, r) = {}
    THEN {[kind |-> "error", status |-> 0, body |-> Nil, sel |-> NoMatch, mocks |-> mocks]}
    ELSE {RoundTripVia(mocks, rm) : rm \in Matching(mocks, r)}

\* the sequences of options handed to NewMockHttpClient
OptionLists(keys, n) == UNION {[1..m -> keys \X Bodies] : m \in 0..n}

NoTrip ==
    [req |-> [Method |-> "", Path |-> <<>>], before |-> NoMocks,
     out |-> [kind |-> "none", status |-> 0, body |-> Nil, sel |-> NoMatch,
              mocks |-> NoMocks]]

Resting == [pc |-> "idle", req |-> [Method |-> "", Path |-> <<>>], sel |-> NoMatch,
            respBodies |-> <<>>, queue |-> <<>>, out |-> "none"]

notMock ==
    <<pipeVars, ruleVars, seatVars, eventVars, codecVars, statusVars, reqVars, linkVars,
      tripVars>>

\* NewMockHttpClient(options...): the round tripper of this behaviour is made,
\* once, with the options applied
NewMockHttpClient(options) ==
    /\ DOMAIN registered = {}
    /\ lastTrip = NoTrip
    /\ \A p \in Procs : trips[p] = Resting
    /\ RequestMocks' = ApplyOptions(NoMocks, options)
    /\ registered' = ApplyOptions(NoMocks, options)
    /\ served' = [k \in DOMAIN ApplyOptions(NoMocks, options) |-> <<>>]
    /\ lastTrip' = NoTrip
    /\ fatal' = FALSE
    /\ UNCHANGED trips
    /\ UNCHANGED notMock

\* one RoundTrip of a single caller, from the call to the return or the panic
RoundTrip(r) ==
    /\ \E o \in RoundTripOutcomes(RequestMocks, r) :
         /\ RequestMocks' = o.mocks
         /\ served' = IF o.kind = "response"
                      THEN [served EXCEPT ![o.sel] = Append(@, o.body)]
                      ELSE served
         /\ lastTrip' = [req |-> r, before |-> RequestMocks, out |-> o]
    /\ UNCHANGED <<registered, trips, fatal>>
    /\ UNCHANGED notMock

\* the steps of RoundTrip as concurrent goroutines take them; nothing in
\* MockRoundTripper serialises them
notRace ==
    <<pipeVars, ruleVars, seatVars, eventVars, codecVars, statusVars, reqVars, linkVars,
      tripVars, lastTrip, registered>>

\* the range loop of goroutine p: it reads a matching key and its queue, and
\* returns the error when there is none or panics when the queue is empty
TripSelect(p, r) ==
    /\ ~fatal
    /\ DOMAIN registered # {}
    /\ trips[p].pc = "idle"
    /\ IF Matching(RequestMocks, r) = {}
       THEN trips' = [trips EXCEPT ![p] = [Resting EXCEPT !.req = r, !.out = "error"]]
       ELSE \E rm \in Matching(RequestMocks, r) :
              trips' = [trips EXCEPT ![p] =
                  IF Len(RequestMocks[rm]) = 0
                  THEN [Resting EXCEPT !.req = r, !.sel = rm, !.out = "panic"]
                  ELSE [pc |-> "deferred", req |-> r, sel |-> rm,
                        respBodies |-> RequestMocks[rm], queue |-> <<>>, out |-> "none"]]
    /\ UNCHANGED <<RequestMocks, served, fatal>>
    /\ UNCHANGED notRace

\* the deferred function of p reads mrt.RequestMocks[rm] and slices it; [1:]
\* of a queue another goroutine has emptied panics, and p's caller gets the
\* panic instead of the response
TripPopRead(p) ==
    /\ ~fatal
    /\ trips[p].pc = "deferred"
    /\ trips' = [trips EXCEPT ![p] =
                    IF Len(RequestMocks[trips[p].sel]) = 0
                    THEN [@ EXCEPT !.pc = "idle", !.out = "panic"]
                    ELSE [@ EXCEPT !.pc = "write",
                                   !.queue = Tail(RequestMocks[trips[p].sel])]]
    /\ UNCHANGED <<RequestMocks, served, fatal>>
    /\ UNCHANGED notRace

\* the deferred function of p stores the sliced queue, and RoundTrip returns
\* the response made of the body p read in the loop
TripPopWrite(p) ==
    /\ ~fatal
    /\ trips[p].pc = "write"
    /\ RequestMocks' = [RequestMocks EXCEPT ![trips[p].sel] = trips[p].queue]
    /\ served' = [served EXCEPT ![trips[p].sel] = Append(@, FirstBody(trips[p].respBodies))]
    /\ trips' = [trips EXCEPT ![p] = [@ EXCEPT !.pc = "idle", !.out = "response"]]
    /\ UNCHANGED fatal
    /\ UNCHANGED notRace

\* the runtime finds p writing the map while another goroutine is using it
\* and stops the program ("fatal error: concurrent map read and map write")
TripFatal(p) ==
    /\ ~fatal
    /\ trips[p].pc = "write"
    /\ \E q \in Procs \ {p} : trips[q].pc # "idle"
    /\ fatal' = TRUE
    /\ UNCHANGED <<RequestMocks, served, trips>>
    /\ UNCHANGED notRace

MockInit ==
    /\ RequestMocks = NoMocks
    /\ registered = NoMocks
    /\ served = NoMocks
    /\ lastTrip = NoTrip
    /\ trips = [p \in Procs |-> Resting]
    /\ fatal = FALSE

(***************************************************************************)
(* The specifications.                                                     *)
(***************************************************************************)
Init == PipeInit /\ RuleInit /\ SeatInit /\ EventInit /\ CodecInit /\ StatusInit /\ RequestInit /\ LinkInit /\ TripInit /\ MockInit

\* the wrappers, each call through client.Do
WrapperNext ==
    \/ \E p \in Procs, w \in Wrappers :
         \E seg \in (IF PathFromCaller(w) THEN Segments ELSE {"e"}) : Call(p, w, seg)
    \/ \E p \in Procs : Build(p)
    \/ \E p \in Procs, x \in Exchanges : DoSend(p, x)
    \/ \E p \in Procs : DoObserve(p)
    \/ \E p \in Procs : DoClassify(p)
    \/ \E p \in Procs : DoReturn(p)
    \/ \E p \in Procs : Return(p)
    \/ \E p \in Procs : Finish(p)

Next == WrapperNext /\ UNCHANGED <<ruleVars, seatVars, eventVars, codecVars, statusVars, reqVars, linkVars, tripVars, mockVars>>

Spec == Init /\ [][Next]_vars

\* concurrent callers of client.Do and readers of the tracker
DoNext ==
    \/ \E p \in Procs, c \in Categories : Snapshot(p, c)
    \/ \E p \in Procs : DoCall(p)
    \/ \E p \in Procs, x \in Exchanges : DoSend(p, x)
    \/ \E p \in Procs : DoObserve(p)
    \/ \E p \in Procs : DoClassify(p)
    \/ \E p \in Procs : DoReturn(p)
    \/ \E p \in Procs : DoDone(p)

NextDo == DoNext /\ UNCHANGED <<ruleVars, seatVars, eventVars, codecVars, statusVars, reqVars, linkVars, tripVars, mockVars>>

SpecDo == Init /\ [][NextDo]_vars

\* a RulesetRule receiver decoding one document after another
NextRule == \E doc \in RuleDocs : RuleUnmarshal(doc)

SpecRule == Init /\ [][NextRule]_vars

\* the decoders of received payloads
NextDecode ==
    \/ \E doc \in SeatDocs : SeatUnmarshal(doc)
    \/ \E e \in Events : ReceiveEvent(e)
    \/ Payload

SpecDecode == Init /\ [][NextDecode]_vars

\* the encode/decode round trips of body values
NextCodec ==
    \/ \E T \in BodyTypes : \E v \in BodyValues(T) : Encode(T, v)
    \/ DecodeBody

SpecCodec == Init /\ [][NextCodec]_vars

\* the statistics endpoints and the boolean checks, call after call
NextStatus ==
    \/ \E w \in StatsWrappers, seg \in Segments, x \in StatusExchanges : StatsCall(w, seg, x)
    \/ \E w \in BoolWrappers, seg \in Segments, x \in StatusExchanges : BoolCall(w, seg, x)

SpecStatus == Init /\ [][NextStatus]_vars

\* the wrappers building their requests, call after call
NextRequest ==
    \/ \E user \in Names, opt \in StarredOptions : BuildListStarred(user, opt)
    \/ \E user \in Names, opt \in RepositoryListOptions : BuildRepositoriesList(user, opt)
    \/ \E org \in Names, repo \in {"r", "s"} : BuildRepositoriesCreate(org, repo)
    \/ \E opt \in ListOptions : BuildListPublicEvents(opt)
    \/ \E owner \in Names \ {""}, opts \in ListOptions :
         BuildListEnabledOrgsInEnterprise(owner, opts)
    \/ \E opts \in DiscussionListOptions : BuildListDiscussionsByID(opts)
    \/ \E opt \in ListOptions : BuildListInstallations(opt)
    \/ \E t \in {"users", "issues"}, q \in {"", "go"}, opt \in SearchOptions :
         BuildSearch(t, q, opt)
    \/ \E owner \in Names \ {""}, ids \in IDLists :
         BuildSetEnabledOrgsInEnterprise(owner, ids)
    \/ \E owner \in Names \ {""}, id \in 1..2 : BuildAddEnabledOrgInEnterprise(owner, id)
    \/ \E owner \in Names \ {""}, id \in 1..2 : BuildRemoveEnabledOrgInEnterprise(owner, id)
    \/ \E owner \in Names \ {""}, s \in BodyValues("OrganizationEncryptedSecret") :
         BuildCreateOrUpdateSecret(owner, s)

SpecRequest == Init /\ [][NextRequest]_vars

\* the pagination helper, response after response
NextLink == \E h \in LinkHeaders : Extract(h)

SpecLink == Init /\ [][NextLink]_vars

\* rules built by the constructors, marshalled and unmarshalled again
NextTrip ==
    \/ \E c \in DOMAIN Constructors : \E params \in ConstructorArgs(c) : Construct(c, params)
    \/ MarshalBuilt
    \/ UnmarshalBuilt

SpecTrip == Init /\ [][NextTrip]_vars


\* one caller sending request after request through a mock client
NextMock ==
    \/ \E options \in OptionLists(RequestMatches, MaxOptions) : NewMockHttpClient(options)
    \/ \E r \in Requests : RoundTrip(r)

SpecMock == Init /\ [][NextMock]_vars


\* goroutines sending requests through one mock client at the same time
NextMockRace ==
    \/ \E options \in OptionLists({RequestMatchUsersGet}, MaxOptions) :
         NewMockHttpClient(options)
    \/ \E p \in Procs, r \in {q \in Requests : q.Path \in {<<"users", "octocat">>, <<"repos">>}} :
         TripSelect(p, r)
    \/ \E p \in Procs : TripPopRead(p)
    \/ \E p \in Procs : TripPopWrite(p)
    \/ \E p \in Procs : TripFatal(p)

SpecMockRace == Init /\ [][NextMockRace]_vars


(***************************************************************************)
(* The claims about the wrappers (specification Spec).                     *)
(***************************************************************************)
\* a wrapper call of p has returned
Returned(p) == pc[p] = "done"

\* C1: every wrapper that returns a decoded value together with an error
\* returns exactly one of the two: a non-nil value with a nil error, or a nil
\* value with a non-nil error.
C1_ExactlyOneOfValueAndError ==
    \A p \in Procs :
        Returned(p) /\ ret[p].sig \in {"val_resp_err", "val_err"}
        => \/ ret[p].val # Nil /\ ret[p].err = Nil
           \/ ret[p].val = Nil /\ ret[p].err # Nil

\* C2: whenever a wrapper has invoked client.Do, the response that Do produced
\* is handed back to the wrapper's caller unchanged, when Do succeeded and
\* when Do returned an error.
C2_ResponseHandedBack ==
    \A p \in Procs :
        Returned(p) /\ doCalls[p] > 0
        => /\ ret[p].sig \in {"val_resp_err", "resp_err"}
           /\ ret[p].resp = doOut[p].resp

\* C5: every wrapper call builds at most one request and dispatches it through
\* client.Do at most once, also after Do returned an error.
C5_AtMostOneDispatch ==
    \A p \in Procs :
        /\ reqs[p] <= 1
        /\ doCalls[p] <= reqs[p]
        /\ (pc[p] \in {"afterdo", "done"} /\ doOut[p].err # Nil => doCalls[p] = 1)

C5_Witness ==
    \E p \in Procs : Returned(p) /\ doOut[p].err # Nil /\ doCalls[p] = 1

\* C6: when building the request fails, the wrapper returns that error with a
\* nil decoded value and a nil Response, and client.Do is never called.
C6_BuildFailureSkipsDo ==
    \A p \in Procs :
        LET e == BuildError(call[p].w, call[p].seg)
        IN  call[p].w \in Wrappers /\ e # Nil
            => /\ doCalls[p] = 0
               /\ pc[p] \in {"build", "done"}
               /\ (Returned(p) => /\ ret[p].err = e
                                  /\ ret[p].val \in {Nil, NoSlot}
                                  /\ ret[p].resp = NoResp)

C6_Witness ==
    \E p \in Procs :
        /\ Returned(p)
        /\ call[p].w = "RepositoriesGet"
        /\ call[p].seg = "%"
        /\ ret[p].err = "InvalidPathError"

(***************************************************************************)
(* The claims about client.Do and the tracker (specification SpecDo).      *)
(***************************************************************************)
\* record rec is the whole triple of one observed response of category c
FromOneResponse(rec, c) ==
    \E o \in observed : o.cat = c /\ rec = RateHeaders(o)

\* C3: under any interleaving of Observe calls and Snapshot reads, the record
\* of a category is the complete limit / remaining / reset triple of one
\* single observed response of that category, and so is every record read.
C3_RecordFromOneResponse ==
    /\ \A c \in Categories : rate[c] = NoRecord \/ FromOneResponse(rate[c], c)
    /\ \A p \in Procs : snap[p] = NoRecord \/ FromOneResponse(snap[p], call[p].cat)

C3_Witness ==
    \E c \in Categories :
        /\ Cardinality({o \in observed : o.cat = c}) = 2
        /\ \E p \in Procs : snap[p] # NoRecord /\ call[p].cat = c

\* event a occurs before event b in the sequence s
Before(a, b, s) ==
    \E i, j \in 1..Len(s) : i < j /\ s[i] = a /\ s[j] = b

\* C4: within one Do call that received a response, on success and on an
\* error response alike, the tracker observes the headers, then the response
\* is classified and decoded, then the call returns.
C4_ObserveThenClassifyThenReturn ==
    \A p \in Procs :
        resp[p] # NoResp /\ pc[p] = "afterdo"
        => /\ Before("observe", "classify", log[p])
           /\ Before("classify", "return", log[p])
           /\ [id |-> resp[p].id, cat |-> resp[p].cat] \in observed

C4_Witness ==
    \E p \in Procs :
        /\ pc[p] = "afterdo"
        /\ resp[p].kind = "api_error"
        /\ log[p] = <<"send", "observe", "classify", "return">>

(***************************************************************************)
(* The claims about RulesetRule.UnmarshalJSON (specification SpecRule).    *)
(***************************************************************************)
\* the concrete parameter type the claim assigns to each rule type
ClaimedParametersType ==
    [t \in ParameterTypes |->
        CASE t = "update" -> "UpdateAllowsFetchAndMergeRuleParameters"
          [] t = "required_deployments" -> "RequiredDeploymentEnvironmentsRuleParameters"
          [] t = "pull_request" -> "PullRequestRuleParameters"
          [] t = "required_status_checks" -> "RequiredStatusChecksRuleParameters"
          [] OTHER -> "RulePatternParameters"]

\* C8: after UnmarshalJSON returns nil, Type equals the JSON "type" value and
\* Parameters is determined by Type alone: nil for the five parameterless
\* types, also when the JSON carried a parameters object; otherwise, when
\* non-nil, a pointer of exactly the concrete type assigned to that Type.
C8_ParametersDeterminedByType ==
    ruleErr = Nil
    => /\ rsr.Type = ruleIn.type
       /\ rsr.Type \in KnownRuleTypes
       /\ (rsr.Type \in ParameterlessTypes => rsr.Parameters = NilParams)
       /\ (rsr.Type \in ParameterTypes
           => \/ rsr.Parameters = NilParams
              \/ rsr.Parameters.ptr = ClaimedParametersType[rsr.Type])

C8_Witness ==
    /\ ruleErr = Nil
    /\ ruleIn.type = "creation"
    /\ ruleIn.params = "object"
    /\ rsr.Parameters = NilParams

\* C27: after every UnmarshalJSON call on a reused receiver, whether it
\* returned nil or an error, Parameters is nil or has the concrete type the
\* receiver's current Type prescribes.
C27_ReceiverStaysConsistent ==
    \/ rsr.Parameters = NilParams
    \/ /\ rsr.Type \in ParameterTypes
       /\ rsr.Parameters.ptr = ClaimedParametersType[rsr.Type]

\* the document is a well-formed object whose "type" is none of the fourteen
\* known rule types
UnknownType(doc) == doc.wf /\ doc.type \notin KnownRuleTypes

\* C28 as stated: on a well-formed object whose "type" is not one of the
\* fourteen known rule types, UnmarshalJSON returns an error and leaves the
\* receiver with Type "" and Parameters nil, whatever it held before.
C28_UnknownTypeResetsReceiver ==
    UnknownType(ruleIn)
    => /\ ruleErr # Nil
       /\ rsr.Type = ""
       /\ rsr.Parameters = NilParams

\* C28 as amended: the same on a well-formed object whose "type" is missing
\* or is a string that is not one of the fourteen known rule types.
C28_UnknownTypeStringResetsReceiver ==
    (UnknownType(ruleIn) /\ ruleIn.type # "<number>")
    => /\ ruleErr # Nil
       /\ rsr.Type = ""
       /\ rsr.Parameters = NilParams

C28_Witness ==
    /\ ruleIn.wf
    /\ ruleIn.type = "merge_queue"
    /\ ruleIn.params = "object"
    /\ ruleErr = "not yet implemented"
    /\ rsr = [Type |-> "", Parameters |-> NilParams]

(***************************************************************************)
(* The claims about the decoders of payloads (specification SpecDecode).   *)
(***************************************************************************)
\* C7: after CopilotSeatDetails.UnmarshalJSON returns nil, Assignee is a *User
\* iff the assignee's "type" is "User", a *Team iff it is "Team", an
\* *Organization iff it is "Organization"; exactly one of GetUser, GetTeam,
\* GetOrganization returns ok and the other two return (nil, false).
C7_AssigneeMatchesType ==
    seatOut = Nil
    => /\ (cp.Assignee = "*User" <=> seatIn.type = "User")
       /\ (cp.Assignee = "*Team" <=> seatIn.type = "Team")
       /\ (cp.Assignee = "*Organization" <=> seatIn.type = "Organization")
       /\ LET gets == <<GetUser(cp), GetTeam(cp), GetOrganization(cp)>>
          IN  /\ Cardinality({i \in 1..3 : gets[i].ok}) = 1
              /\ \A i \in 1..3 : ~gets[i].ok => gets[i].val = Nil
              /\ \A i \in 1..3 : gets[i].ok => gets[i].val = cp.Assignee

C7_Witness ==
    /\ seatOut = Nil
    /\ seatIn.type = "Team"
    /\ GetTeam(cp) = [val |-> "*Team", ok |-> TRUE]
    /\ ~GetUser(cp).ok

\* the documents of the claim's error cases: the assignee absent, null or no
\* object, an assignee object without "type", or with a "type" string other
\* than User, Team and Organization
AssigneeRejected(doc) ==
    /\ doc.wf
    /\ \/ doc.assignee # "object"
       \/ doc.type = "<absent>"
       \/ doc.type = "Bot"

C9_DecodeFailuresAreErrors ==
    /\ seatOut # "panic"
    /\ payloadOut.status # "panic"

\* C19: Event.Payload returns a *PushEvent decoded from RawPayload iff the
\* event's Type is "PushEvent"; for every other Type it returns the generic
\* decoding of RawPayload; it never modifies the Event.
C19_PayloadByType ==
    /\ EventPayload(ev).ev = ev
    /\ payloadOut.status = "returned"
         => /\ payloadOut.payload = "*PushEvent" <=> ev.Type = "PushEvent"
            /\ ev.Type # "PushEvent"
                 => \/ ev.RawPayload = "null" /\ payloadOut.payload = Nil
                    \/ ev.RawPayload = "array" /\ payloadOut.payload = "[]interface{}"
                    \/ /\ ev.RawPayload \in {"object", "mismatch"}
                       /\ payloadOut.payload = "map[string]interface{}"

(***************************************************************************)
(* The claim about the encoding of body values (specification SpecCodec).  *)
(***************************************************************************)
\* C10: for every body type and every value of it, encoding the value to JSON
\* and decoding that JSON into a fresh value of the same type reproduces every
\* exported field, PushEvent's Ref and Size and OrganizationEncryptedSecret's
\* Name included.
C10_RoundTripReproducesFields ==
    codecPc = "decoded"
    => \A f \in Fields(codecIn.type) : codecOut[f.name] = codecIn.value[f.name]

(***************************************************************************)
(* The claims about the status-driven wrappers (specification SpecStatus). *)
(***************************************************************************)
\* the call recorded in stIn dispatched a request and a response came back
Dispatched == stIn.w # "none" /\ URLParses(stIn.seg) /\ stIn.x.sent

\* C11: when a statistics endpoint receives a 202 with an empty body, the
\* call is non-fatal: the caller gets the response with status 202 and a nil
\* error, and the decode target is left untouched.
C11_AcceptedIsNonFatal ==
    (/\ Dispatched
     /\ stIn.w \in StatsWrappers
     /\ stIn.x.status = 202
     /\ stIn.x.body = "empty")
    => /\ stRet.resp.status = 202
       /\ stRet.err = Nil
       /\ stRet.val = "zero"


\* C15: a boolean check returns true with a nil error on 204, false with a
\* nil error on 404, and false with a non-nil error on every other failure;
\* whenever a request was dispatched the Response of Do is returned.
C15_BoolCheckByStatus ==
    (Dispatched /\ stIn.w \in BoolWrappers)
    => /\ stIn.x.status = 204 => stRet.val = TRUE /\ stRet.err = Nil
       /\ stIn.x.status = 404 => stRet.val = FALSE /\ stRet.err = Nil
       /\ stIn.x.status \in {202, 500} => stRet.val = FALSE /\ stRet.err # Nil
       /\ stRet.sig = "val_resp_err"
       /\ stRet.resp = [status |-> stIn.x.status]


(***************************************************************************)
(* The claims about the requests (specification SpecRequest).              *)
(***************************************************************************)
\* every field of the options the wrapper was called with holds its default
AllDefault(opt) ==
    \A f \in DOMAIN opt \ {"nil", "TextMatch"} : IsDefault(f, opt[f])

ListWrappers ==
    {"ListStarred", "RepositoriesList", "ListPublicEvents",
     "ListEnabledOrgsInEnterprise", "ListDiscussionsByID", "ListInstallations"}

\* C12: for every list operation called with non-nil options whose fields
\* all hold their default values, the request URL carries no query string, the
\* operations that assemble url.Values by hand included.
C12_DefaultOptionsNoQuery ==
    (reqIn.w \in ListWrappers /\ ~reqIn.opt.nil /\ AllDefault(reqIn.opt))
    => ~req.url.mark /\ DOMAIN req.url.query = {}


\* the operations that pass their options through addOptions
AddOptionsWrappers ==
    {"ListEnabledOrgsInEnterprise", "ListDiscussionsByID", "ListInstallations"}

\* C13: for the operations that pass their options through addOptions, the
\* query parameters of the request are exactly the option fields holding a
\* non-default value, each under its declared key: ListOptions{Page: 1} yields
\* only page=1, {Direction: "desc", Page: 2} only direction=desc and page=2.
C13_QueryIsNonDefaultFields ==
    (reqIn.w \in AddOptionsWrappers /\ ~reqIn.opt.nil)
    => LET o == reqIn.opt
           q == req.url.query
           has(f) == f \in DOMAIN o
       IN  /\ "page" \in DOMAIN q <=> o.Page # 0
           /\ "per_page" \in DOMAIN q <=> o.PerPage # 0
           /\ "direction" \in DOMAIN q <=> (has("Direction") /\ o.Direction # "")
           /\ DOMAIN q \subseteq {"page", "per_page", "direction"}
           /\ o.Page = 1 => q["page"] = "1"
           /\ o.Page = 2 => q["page"] = "2"
           /\ o.PerPage = 2 => q["per_page"] = "2"
           /\ "direction" \in DOMAIN q => q["direction"] = o.Direction

C13_Witness ==
    /\ reqIn.w = "ListDiscussionsByID"
    /\ reqIn.opt = [nil |-> FALSE, Direction |-> "desc", Page |-> 2, PerPage |-> 0]
    /\ DOMAIN req.url.query = {"direction", "page"}
    /\ req.url.query["direction"] = "desc"
    /\ req.url.query["page"] = "2"


(***************************************************************************)
(* The claim about the pagination helper (specification SpecLink).         *)
(***************************************************************************)
\* C14: ExtractCursors maps each <url>; rel="name" entry of the Link header to
\* the cursor of that name for name in {first, prev, next, last}, ignores
\* entries of any other relation name, and returns the all-nil cursor set
\* when the header is absent; rel="next" page 2 with rel="prev" page 1 yields
\* next = 2, prev = 1 and first and last nil.
C14_CursorsFromLinkHeader ==
    /\ DOMAIN cursors = {"first", "prev", "next", "last"}
    /\ ~linkIn.present => \A n \in DOMAIN cursors : cursors[n] = Nil
    /\ \A i \in DOMAIN linkIn.links :
         LET e == linkIn.links[i]
         IN  e.rel \in {"first", "prev", "next", "last"}
             => \/ e.url = "https://api.example/x?page=1" /\ cursors[e.rel] = "1"
                \/ e.url = "https://api.example/x?page=2" /\ cursors[e.rel] = "2"
                \/ e.url = "https://api.example/x?page=3" /\ cursors[e.rel] = "3"
    /\ \A n \in DOMAIN cursors :
         (\A i \in DOMAIN linkIn.links : linkIn.links[i].rel # n) => cursors[n] = Nil

C14_Witness ==
    /\ linkIn = [present |-> TRUE,
                 links |-> <<[url |-> "https://api.example/x?page=2", rel |-> "next"],
                             [url |-> "https://api.example/x?page=1", rel |-> "prev"]>>]
    /\ cursors = [first |-> Nil, prev |-> "1", next |-> "2", last |-> Nil]


\* C16: CreateOrUpdateSecret places the secret's Name only in the request
\* path orgs/{owner}/actions/secrets/{Name} and never in the JSON body: the
\* body holds key_id, encrypted_value and visibility, selected_repository_ids
\* only when non-empty, and no member holding Name.
C16_SecretNameOnlyInPath ==
    reqIn.w = "CreateOrUpdateSecret"
    => LET s == reqIn.arg
           j == req.body.json
       IN  /\ req.url.path = <<"orgs", reqIn.name, "actions", "secrets", s.Name>>
           /\ req.body.present
           /\ DOMAIN j = {"key_id", "encrypted_value", "visibility"}
                         \cup (IF s.SelectedRepositoryIDs # <<>>
                               THEN {"selected_repository_ids"} ELSE {})
           /\ j["key_id"] = s.KeyID
           /\ j["encrypted_value"] = s.EncryptedValue
           /\ j["visibility"] = s.Visibility
           /\ "selected_repository_ids" \in DOMAIN j
                => j["selected_repository_ids"] = s.SelectedRepositoryIDs

C16_Witness ==
    /\ reqIn.w = "CreateOrUpdateSecret"
    /\ reqIn.arg.Name = "NAME"
    /\ reqIn.arg.SelectedRepositoryIDs # <<>>
    /\ req.url.path[5] = "NAME"
    /\ DOMAIN req.body.json =
         {"key_id", "encrypted_value", "visibility", "selected_repository_ids"}

\* C17: a request has a body iff the wrapper supplied a non-nil body value,
\* and then it is that value's JSON with Content-Type application/json:
\* SetEnabledOrgsInEnterprise(ids) sends a PUT with the body
\* {"selected_organization_ids": ids}, the ids in the given order;
\* AddEnabledOrgInEnterprise and RemoveEnabledOrgInEnterprise send no body.
C17_BodyIffSupplied ==
    /\ reqIn.w \in {"SetEnabledOrgsInEnterprise", "CreateOrUpdateSecret", "RepositoriesCreate"}
         => req.body.present /\ req.ctype = "application/json"
    /\ reqIn.w \notin {"SetEnabledOrgsInEnterprise", "CreateOrUpdateSecret",
                       "RepositoriesCreate", "none"}
         => ~req.body.present /\ req.ctype = "" /\ DOMAIN req.body.json = {}
    /\ reqIn.w = "SetEnabledOrgsInEnterprise"
         => /\ req.verb = "PUT"
            /\ DOMAIN req.body.json = {"selected_organization_ids"}
            /\ req.body.json["selected_organization_ids"] = reqIn.arg
    /\ reqIn.w = "AddEnabledOrgInEnterprise" => req.verb = "PUT"
    /\ reqIn.w = "RemoveEnabledOrgInEnterprise" => req.verb = "DELETE"

C17_Witness ==
    /\ reqIn.w = "SetEnabledOrgsInEnterprise"
    /\ reqIn.arg = <<2, 1>>
    /\ req.body.json["selected_organization_ids"] = <<2, 1>>

\* C18: when an operation requires a preview media type, the request carries
\* an Accept header whose value is exactly that media type, overriding the
\* default: ListInstallations sends mediaTypeIntegrationPreview, search sends
\* mimePreview, or mimePreview with ".text-match+json" iff TextMatch is true.
C18_AcceptIsPreviewType ==
    /\ reqIn.w = "ListInstallations"
         => req.accept = <<"application/vnd.github.machine-man-preview+json">>
    /\ reqIn.w = "search"
         => req.accept =
              IF ~reqIn.opt.nil /\ reqIn.opt.TextMatch
              THEN <<"application/vnd.github.preview.text-match+json">>
              ELSE <<"application/vnd.github.preview">>

\* C20: the empty string as user (or org) selects the authenticated-user
\* endpoint and any non-empty string the named one: ListStarred uses
\* user/starred iff user is empty and users/{user}/starred otherwise, List
\* user/repos or users/{user}/repos, Create user/repos or orgs/{org}/repos.
C20_EmptyNameSelectsAuthenticatedUser ==
    LET named(a, b) == IF reqIn.name = "" THEN req.url.path = <<"user", b>>
                       ELSE req.url.path = <<a, reqIn.name, b>>
    IN  /\ reqIn.w = "ListStarred" => named("users", "starred")
        /\ reqIn.w = "RepositoriesList" => named("users", "repos")
        /\ reqIn.w = "RepositoriesCreate" => named("orgs", "repos")

C20_Witness ==
    /\ reqIn.w = "ListStarred"
    /\ reqIn.name = "user"
    /\ req.url.path = <<"users", "user", "starred">>

(***************************************************************************)
(* The claim about the constructors' rules (specification SpecTrip).       *)
(***************************************************************************)
\* C21: a rule built by a New*Rule constructor, with a nil or a non-nil
\* parameter pointer, marshalled and unmarshalled again, decodes without
\* error into a rule of the same Type whose Parameters equal the original's.
C21_ConstructedRuleRoundTrips ==
    tripPc = "unmarshalled"
    => /\ rebuilt.err = Nil
       /\ rebuilt.Type = built.Type
       /\ rebuilt.Parameters = built.Parameters

(***************************************************************************)
(* The claims about the mock transport with one caller (specification      *)
(* SpecMock).                                                              *)
(***************************************************************************)
\* a single caller's RoundTrip has ended
Tripped == lastTrip.out.kind # "none"

\* C22: the bodies registered for a RequestMatch are served in registration
\* order: what was served from its queue followed by what the queue still
\* holds is what was registered, and a RoundTrip whose request matches only
\* that RequestMatch, its queue not empty, returns status 200 with the body
\* at the head of the queue.
C22_BodiesServedInRegistrationOrder ==
    /\ \A rm \in DOMAIN registered :
         /\ rm \in DOMAIN RequestMocks
         /\ registered[rm] = served[rm] \o RequestMocks[rm]
    /\ Tripped
       => \A rm \in DOMAIN lastTrip.before :
            (Matching(lastTrip.before, lastTrip.req) = {rm} /\ lastTrip.before[rm] # <<>>)
            => /\ lastTrip.out.kind = "response"
               /\ lastTrip.out.status = 200
               /\ lastTrip.out.sel = rm
               /\ lastTrip.out.body = registered[rm][Len(served[rm])]

C22_Witness ==
    \E rm \in DOMAIN registered :
        /\ Len(registered[rm]) >= 2
        /\ registered[rm][1] # registered[rm][2]
        /\ served[rm] = registered[rm]
        /\ Matching(lastTrip.before, lastTrip.req) = {rm}

\* C23: a registered RequestMatch stays in RequestMocks; a RoundTrip that
\* selects one whose queue is empty panics and does not return an error; a
\* request no registered RequestMatch matches gets a nil response and an error.
C23_EmptyQueuePanicsNoMatchErrs ==
    /\ DOMAIN registered \subseteq DOMAIN RequestMocks
    /\ Tripped
       => /\ (lastTrip.out.sel # NoMatch /\ lastTrip.before[lastTrip.out.sel] = <<>>)
             => lastTrip.out.kind = "panic"
          /\ Matching(lastTrip.before, lastTrip.req) = {}
             <=> (lastTrip.out.kind = "error" /\ lastTrip.out.status = 0
                  /\ lastTrip.out.body = Nil)

C23_Witness ==
    /\ lastTrip.out.kind = "panic"
    /\ registered[lastTrip.out.sel] # <<>>
    /\ RequestMocks[lastTrip.out.sel] = <<>>

\* C24: a RoundTrip that returns a response removed the head of the selected
\* RequestMatch's queue and nothing else; every other queue is as before, and
\* a RoundTrip that matches nothing leaves RequestMocks as it was.
C24_OnlySelectedQueueLosesHead ==
    Tripped
    => /\ DOMAIN RequestMocks = DOMAIN lastTrip.before
       /\ \A k \in DOMAIN lastTrip.before :
            IF k = lastTrip.out.sel /\ lastTrip.out.kind = "response"
            THEN lastTrip.before[k] = <<lastTrip.out.body>> \o RequestMocks[k]
            ELSE RequestMocks[k] = lastTrip.before[k]
       /\ (lastTrip.out.kind = "response" => lastTrip.out.sel \in DOMAIN lastTrip.before)

C24_Witness ==
    /\ lastTrip.out.kind = "response"
    /\ Len(lastTrip.before[lastTrip.out.sel]) >= 2
    /\ Cardinality(DOMAIN lastTrip.before) >= 2

\* C25: the outcome of a RoundTrip is a function of the registered mocks and
\* the requests sent so far: from the mocks a call finds, a request has one
\* possible outcome (body, error or panic), also when more than one
\* registered RequestMatch matches it.
C25_OutcomeIsDetermined ==
    Tripped
    => Cardinality({<<o.kind, o.body>> :
                       o \in RoundTripOutcomes(lastTrip.before, lastTrip.req)}) = 1

(***************************************************************************)
(* The claim about concurrent callers of the mock transport (specification *)
(* SpecMockRace).                                                          *)
(***************************************************************************)
\* the number of times body b occurs in a queue
Occurrences(queue, b) == Cardinality({i \in DOMAIN queue : queue[i] = b})

\* C26: with goroutines calling RoundTrip concurrently, once no call is in
\* progress the bodies returned from a RequestMatch's queue are, as a
\* multiset, the prefix of the registered bodies that has left the queue:
\* no body went to two callers and none was dropped.
C26_EachBodyDeliveredOnce ==
    (~fatal /\ \A p \in Procs : trips[p].pc = "idle")
    => \A rm \in DOMAIN registered :
         /\ Len(RequestMocks[rm]) <= Len(registered[rm])
         /\ \A b \in Bodies :
              Occurrences(served[rm], b)
                = Occurrences(SubSeq(registered[rm], 1,
                                     Len(registered[rm]) - Len(RequestMocks[rm])), b)

====
